---- MODULE Spec2Model ----
(***************************************************************************)
(* Redirect gate, scan recorder, geolocation resolver, team resolver and  *)
(* statistics of qrify-server.                                             *)
(*   routes/scan.ts       GET /scan/:slug and its detached logScan         *)
(*   lib/geolocation.ts   getLocationFromIP, its fallback and getPublicIP  *)
(*   lib/team.ts          getTeamMembers, getTeamMemberIds, areTeamMembers *)
(*   routes/qr.ts         POST /qr/url, PUT /qr/:id, DELETE /qr/:id,        *)
(*                        GET /qr/:id/image, GET /qr/stats, GET /qr/my-codes*)
(*   routes/auth.ts       POST /auth/signup, POST /auth/google             *)
(*   routes/users.ts      POST /users/invite, PUT /users/:id/role,         *)
(*                        DELETE /users/:id                                *)
(***************************************************************************)
EXTENDS Integers, Sequences, FiniteSets, TLC

(***************************************************************************)
(* Values shared by all parts                                              *)
(***************************************************************************)
\* JavaScript undefined / null / a property that is not there
Absent == "<absent>"

\* JavaScript truthiness of a string-valued property
Falsy(v) == v = Absent \/ v = ""

\* An optional number or date is a sequence of at most one element:
\* <<>> is undefined / null, <<n>> is the value n.
None == <<>>
Some(n) == <<n>>

\* JavaScript truthiness of a number-valued property (undefined and 0)
FalsyNum(v) == v = None \/ v = Some(0)

(***************************************************************************)
(* lib/geolocation.ts                                                      *)
(***************************************************************************)
\* IP addresses are the dot-separated tokens of the string, so that
\* startsWith('192.168.') is a comparison of the first two tokens.
EmptyIP == <<>>
V6Loopback == <<"::1">>
EgressIP == <<203, 0, 113, 7>>
InputIPs ==
  { EmptyIP, V6Loopback, <<127, 0, 0, 1>>, <<192, 168, 1, 1>>, <<10, 0, 0, 1>>,
    <<192, 0, 2, 1>>, <<172, 16, 0, 1>>, <<8, 8, 8, 8>> }

\* ip.startsWith(prefix + '.')
StartsWith(ip, prefix) ==
  /\ Len(ip) >= Len(prefix)
  /\ \A i \in 1..Len(prefix) : ip[i] = prefix[i]

\* the condition of line 16
IsLocalOrPrivate(ip) ==
  \/ ip = EmptyIP
  \/ ip = V6Loopback
  \/ StartsWith(ip, <<127>>)
  \/ StartsWith(ip, <<192, 168>>)
  \/ StartsWith(ip, <<10>>)

\* the record every failure path returns
UnknownLocation ==
  [country |-> "Unknown", city |-> "Unknown", region |-> "Unknown",
   latitude |-> None, longitude |-> None]

\* the value of a call that threw instead of returning a record
NoLocation == [thrown |-> "Error"]

\* the services getPublicIP iterates over
NumServices == 4

\* What the outside world answers during one call of getLocationFromIP.
\*   disc[i]    service i of getPublicIP: "ok", "notOk" (a response whose
\*              ok flag is false) or "error" (fetch throws: timeout, transport)
\*   primary    ipapi.co asked about a routable address
\*   secondary  ip-api.com asked about a routable address
\*   payload    the location fields of the answering provider
DiscOutcomes == {"ok", "notOk", "error"}
PrimaryOutcomes ==
  {"ok", "rateLimited", "httpError", "errorPayload", "timeout", "transport", "badJson"}
SecondaryOutcomes == {"ok", "httpError", "statusFail", "timeout", "transport"}
Payloads ==
  { [country |-> "France", city |-> "Paris", region |-> "IDF",
     latitude |-> Some(48), longitude |-> Some(2)],
    [country |-> "France", city |-> Absent, region |-> "IDF",
     latitude |-> Some(48), longitude |-> None],
    [country |-> "Ghana", city |-> "Tema", region |-> "",
     latitude |-> Some(5), longitude |-> Some(0)],
    [country |-> Absent, city |-> Absent, region |-> Absent,
     latitude |-> None, longitude |-> None] }
GeoEnvs ==
  [disc : [1..NumServices -> DiscOutcomes], primary : PrimaryOutcomes,
   secondary : SecondaryOutcomes, payload : Payloads]

\* Addresses a public geolocation provider can locate.
IsRoutable(ip) ==
  /\ ~IsLocalOrPrivate(ip)
  /\ ~(Len(ip) = 4 /\ ip[1] = 172 /\ ip[2] >= 16 /\ ip[2] <= 31)

\* fetch of https://ipapi.co/<target>/json/ : a reserved address is answered
\* with an error payload
PrimaryResponse(env, target) ==
  IF IsRoutable(target) THEN env.primary ELSE "errorPayload"

\* fetch of http://ip-api.com/json/<ip> : a reserved address is answered with
\* status "fail"
SecondaryResponse(env, ip) ==
  IF IsRoutable(ip) THEN env.secondary ELSE "statusFail"

\* getPublicIP: the services in order, the first ok response wins, an
\* exhausted list throws.  calls is the list of external calls made so far.
RECURSIVE TryServices(_, _, _)
TryServices(env, i, calls) ==
  IF i > NumServices
  THEN [threw |-> TRUE, ip |-> EmptyIP, calls |-> calls]
  ELSE LET made == Append(calls, <<"discovery", i>>)
       IN  IF env.disc[i] = "ok"
           THEN [threw |-> FALSE, ip |-> EgressIP, calls |-> made]
           ELSE TryServices(env, i + 1, made)

GetPublicIP(env) == TryServices(env, 1, <<>>)

\* Normalize without its defaults: the provider's fields as they are
NormalizeVerbatim(data) == data

\* lines 64-70 and 134-140: field || 'Unknown', coordinate ? parseFloat : undefined
Normalize(data) ==
  [country |-> IF Falsy(data.country) THEN "Unknown" ELSE data.country,
   city |-> IF Falsy(data.city) THEN "Unknown" ELSE data.city,
   region |-> IF Falsy(data.region) THEN "Unknown" ELSE data.region,
   latitude |-> IF FalsyNum(data.latitude) THEN None ELSE data.latitude,
   longitude |-> IF FalsyNum(data.longitude) THEN None ELSE data.longitude]

\* the try block of getLocationFromIPFallback (lines 96-144)
FallbackTry(ip, env, calls) ==
  IF ip = EmptyIP
  THEN [threw |-> FALSE, loc |-> UnknownLocation, calls |-> calls]
  ELSE LET made == Append(calls, <<"secondary", ip>>)
           out == SecondaryResponse(env, ip)
       IN  IF out = "ok"
           THEN [threw |-> FALSE, loc |-> Normalize(env.payload), calls |-> made]
           ELSE [threw |-> TRUE, loc |-> NoLocation, calls |-> made]

\* FallbackCatch without its catch block: the error leaves the function
FallbackCatchRethrow(t) == t

\* the catch block of getLocationFromIPFallback (lines 145-152)
FallbackCatch(t) ==
  IF t.threw THEN [threw |-> FALSE, loc |-> UnknownLocation, calls |-> t.calls] ELSE t

GetLocationFromIPFallback(ip, env, calls) == FallbackCatch(FallbackTry(ip, env, calls))

\* which address the fallback is given after a rate limit or an error
\* payload (lines 50 and 61)
FallbackArgOnPayload(ip, targetIP) == ip

\* which address the fallback is given from the catch block (line 89)
FallbackArgOnThrow(ip, targetIP) == IF targetIP = EmptyIP THEN ip ELSE targetIP

\* whether the catch block of line 77 asks the fallback after this failure
\* (lines 81-87: not after an AbortError)
CatchTriesFallback(out) == out # "timeout"

\* getLocationFromIP (lines 10-91)
GetLocationFromIP(ip, env) ==
  LET pub == IF IsLocalOrPrivate(ip)
             THEN GetPublicIP(env)
             ELSE [threw |-> FALSE, ip |-> ip, calls |-> <<>>]
  IN  IF pub.threw
      THEN [threw |-> FALSE, loc |-> UnknownLocation, calls |-> pub.calls]
      ELSE LET targetIP == pub.ip
               made == Append(pub.calls, <<"primary", targetIP>>)
               out == PrimaryResponse(env, targetIP)
           IN  CASE out = "ok" ->
                      [threw |-> FALSE, loc |-> Normalize(env.payload), calls |-> made]
                 [] out \in {"rateLimited", "errorPayload"} ->
                      GetLocationFromIPFallback(FallbackArgOnPayload(ip, targetIP), env, made)
                 [] OTHER ->
                      IF CatchTriesFallback(out)
                      THEN GetLocationFromIPFallback(FallbackArgOnThrow(ip, targetIP), env, made)
                      ELSE [threw |-> FALSE, loc |-> UnknownLocation, calls |-> made]

(***************************************************************************)
(* Storage and the identities, links and requests of the model             *)
(***************************************************************************)
\* bounds of the model
MaxQr == 1
MaxReq == 2
MaxTime == 1

QrIds == 1..MaxQr
Reqs == 1..MaxReq
Times == 0..MaxTime

Users == {"u1", "u2"}
\* a URL is the sequence of its host and path segments
UrlA == <<"example.com">>
UrlB == <<"other.example">>
Urls == {UrlA, UrlB}
ServerHost == "qrify.example"
\* the query parameter ?password= : not there, empty, or a text
SuppliedPasswords == {Absent, "", "pw1", "pw2"}
\* the scanner's address as getClientIP extracts it: here no header and no
\* peer address, so that logScan passes clientIP || ''
ClientIP == EmptyIP
UserAgent == "Mozilla/5.0 (iPhone)"

VARIABLES
  now,      \* the clock new Date() reads
  nextQr,   \* the number of QrCode rows created so far
  qrCode,   \* the rows of table QrCode
  scan,     \* the rows of table Scan
  req,      \* the GET /scan/:slug requests
  rec,      \* the detached logScan of each request
  op,       \* the owner's request on /qr in flight, or the answer to the last one
  gIn,      \* the arguments of a getLocationFromIP call
  gOut,     \* its result
  tIn,      \* table User and the arguments of a call of the team resolver
  tOut,     \* the results of getTeamMembers, getTeamMemberIds and areTeamMembers
  sIn,      \* the tables, the date and the user of a GET /qr/stats request
  sOut,     \* its response
  userTbl,  \* the rows of table User
  invitation, \* the rows of table Invitation
  signup,   \* the POST /auth/signup and POST /auth/google requests
  nextId    \* the number of User rows created so far

vars ==
  <<now, nextQr, qrCode, scan, req, rec, op, gIn, gOut, tIn, tOut, sIn, sOut,
    userTbl, invitation, signup, nextId>>
pipeVars == <<now, nextQr, qrCode, scan, req, rec, op>>
geoVars == <<gIn, gOut>>
teamVars == <<tIn, tOut>>
statsVars == <<sIn, sOut>>
acctVars == <<userTbl, invitation, signup, nextId>>
\* the variables no handler of the scan pipeline touches
callVars == <<geoVars, teamVars, statsVars, acctVars>>

\* lib/hash.ts: a one-way hash and its verification; NoHash is the null of
\* column passwordHash
NoHash == <<>>
HashPassword(p) == <<"hash", p>>
ComparePassword(p, h) == h = HashPassword(p)

\* the result of a lookup that finds no row
NoQr == [id |-> 0]
QrBySlug(slug) ==
  IF \E q \in qrCode : q.slug = slug
  THEN CHOOSE q \in qrCode : q.slug = slug
  ELSE NoQr
\* QrOwnedBy looking the row up by id alone
QrOwnedByAnyone(id, u) ==
  IF \E q \in qrCode : q.id = id
  THEN CHOOSE q \in qrCode : q.id = id
  ELSE NoQr

QrOwnedBy(id, u) ==
  IF \E q \in qrCode : q.id = id /\ q.ownerId = u
  THEN CHOOSE q \in qrCode : q.id = id /\ q.ownerId = u
  ELSE NoQr

IdleReq ==
  [pc |-> "idle", password |-> Absent, ip |-> EmptyIP, qr |-> NoQr,
   resp |-> "none", target |-> <<>>]
\* loc and calls are the locals of logScan between its awaits: the location
\* data and the number of external calls getLocationFromIP made for it
IdleRec == [pc |-> "idle", loc |-> NoLocation, calls |-> 0, stored |-> "none"]
IdleOp == [kind |-> "none", pc |-> "done", user |-> "u1", id |-> 0,
           url |-> <<>>, status |-> Absent, at |-> 0, resp |-> "none", target |-> <<>>]

PipeInit ==
  /\ now = 0
  /\ nextQr = 0
  /\ qrCode = {}
  /\ scan = {}
  /\ req = [r \in Reqs |-> IdleReq]
  /\ rec = [r \in Reqs |-> IdleRec]
  /\ op = IdleOp

(***************************************************************************)
(* routes/scan.ts: GET /scan/:slug                                         *)
(***************************************************************************)
\* line 22: qr.expiresAt && new Date() > qr.expiresAt
Expired(q, t) == q.expiresAt # None /\ t > q.expiresAt[1]

\* GateBeforeCompare with the password checked before the expiry
GateBeforeComparePasswordFirst(q, password, t) ==
  IF q = NoQr THEN "404"
  ELSE IF q.passwordHash # NoHash /\ Falsy(password) THEN "401"
  ELSE IF Expired(q, t) THEN "410"
  ELSE IF q.passwordHash # NoHash THEN "compare"
  ELSE "permit"

\* GateBeforeCompare taking the empty string for a supplied password
GateBeforeCompareStrict(q, password, t) ==
  IF q = NoQr THEN "404"
  ELSE IF Expired(q, t) THEN "410"
  ELSE IF q.passwordHash # NoHash
       THEN IF password = Absent THEN "401" ELSE "compare"
       ELSE "permit"

\* lines 19-29, up to the await of comparePassword: the status the handler
\* answers with, or "compare" when it goes on to compare the password, or
\* "permit" when the link has no password
GateBeforeCompare(q, password, t) ==
  IF q = NoQr THEN "404"
  ELSE IF Expired(q, t) THEN "410"
  ELSE IF q.passwordHash # NoHash
       THEN IF Falsy(password) THEN "401" ELSE "compare"
       ELSE "permit"

\* line 30, after the await of comparePassword
GateAfterCompare(q, password) ==
  IF ~ComparePassword(password, q.passwordHash) THEN "403" ELSE "permit"

\* RedirectTarget sending a dynamic link's scanner to the tracking URL
RedirectTargetTracking(q) ==
  IF q.dynamic THEN <<ServerHost, "scan", q.slug>> ELSE q.originalUrl

\* line 100: the location the redirect response carries
RedirectTarget(q) == q.originalUrl

\* Reject that has logged the scan before the gate decided
RejectLogged(r, code, fields) ==
  /\ req' = [req EXCEPT ![r] = [fields EXCEPT !.pc = "done", !.resp = code]]
  /\ rec' = [rec EXCEPT ![r] = [IdleRec EXCEPT !.pc = "geo"]]
  /\ UNCHANGED <<scan, qrCode>>

\* return res.status(code).send(...) of lines 19, 23, 28 and 30
Reject(r, code, fields) ==
  /\ req' = [req EXCEPT ![r] = [fields EXCEPT !.pc = "done", !.resp = code]]
  /\ UNCHANGED <<rec, scan, qrCode>>

\* StartedRec of a handler that never calls logScan
StartedRecNever == IdleRec

\* the state of the detached logScan when the handler returns: started, its
\* first await (inside getLocationFromIP) pending
StartedRec == [IdleRec EXCEPT !.pc = "geo"]

\* Permit of a handler that awaits logScan() before it sends the redirect
PermitAwaiting(r, fields) ==
  /\ rec' = [rec EXCEPT ![r] = StartedRec]
  /\ req' = [req EXCEPT ![r] = [fields EXCEPT !.pc = "logging"]]
  /\ UNCHANGED <<scan, qrCode>>

\* lines 33-100, which run without an await: logScan() is started and not
\* awaited, then the redirect is sent
Permit(r, fields) ==
  /\ rec' = [rec EXCEPT ![r] = StartedRec]
  /\ req' = [req EXCEPT ![r] =
               [fields EXCEPT !.pc = "done", !.resp = "302",
                              !.target = RedirectTarget(fields.qr)]]
  /\ UNCHANGED <<scan, qrCode>>

\* the handler from the arrival of the request to its first answer or to
\* the await of comparePassword
ScanRequest(r, slug, password, ip) ==
  /\ req[r].pc = "idle"
  /\ \A r2 \in Reqs : r2 < r => req[r2].pc # "idle"
  /\ LET q == QrBySlug(slug)
         fields == [req[r] EXCEPT !.password = password, !.ip = ip, !.qr = q]
         gate == GateBeforeCompare(q, password, now)
     IN  CASE gate = "permit" -> Permit(r, fields)
           [] gate = "compare" ->
                /\ req' = [req EXCEPT ![r] = [fields EXCEPT !.pc = "comparing"]]
                /\ UNCHANGED <<rec, scan, qrCode>>
           [] OTHER -> Reject(r, gate, fields)
  /\ UNCHANGED <<now, nextQr, op, callVars>>

\* the handler after comparePassword has answered
ScanCompared(r) ==
  /\ req[r].pc = "comparing"
  /\ IF GateAfterCompare(req[r].qr, req[r].password) = "permit"
     THEN Permit(r, req[r])
     ELSE Reject(r, "403", req[r])
  /\ UNCHANGED <<now, nextQr, op, callVars>>

\* what the providers answer to the getLocationFromIP call of a logScan
AllServices(o) == [i \in 1..NumServices |-> o]
FullPayload == CHOOSE d \in Payloads : ~Falsy(d.city) /\ ~FalsyNum(d.longitude)
RecEnvs ==
  { [disc |-> AllServices("error"), primary |-> "transport", secondary |-> "timeout",
     payload |-> FullPayload],
    [disc |-> AllServices("ok"), primary |-> "ok", secondary |-> "ok",
     payload |-> FullPayload] }

\* the rows logScan inserts (lines 68-77 and 85-89); req and attempt stand
\* for the unique id the storage gives the row
EnrichedRow(r, loc) ==
  [req |-> r, attempt |-> "enriched", qrId |-> req[r].qr.id, ip |-> req[r].ip,
   ua |-> UserAgent, country |-> loc.country, city |-> loc.city,
   region |-> loc.region, latitude |-> loc.latitude, longitude |-> loc.longitude]
MinimalRow(r) ==
  [req |-> r, attempt |-> "minimal", qrId |-> req[r].qr.id, ip |-> req[r].ip,
   ua |-> UserAgent, country |-> Absent, city |-> Absent,
   region |-> Absent, latitude |-> None, longitude |-> None]

\* prisma.scan.create succeeds when the storage is available and the row's
\* qrId references a QrCode row (Scan_qrId_fkey)
CanInsert(row, dbOk) == dbOk /\ \E q \in qrCode : q.id = row.qrId

\* AfterInsert without the inner try/catch of lines 83-93
AfterInsertUncaught(attempt, ok) ==
  IF ok THEN "done"
  ELSE IF attempt = "enriched" THEN "retry" ELSE "unhandled"

\* AfterInsert with the minimal insert in a finally block
AfterInsertFinally(attempt, ok) ==
  IF attempt = "enriched" THEN "retry" ELSE "done"

\* AfterInsert giving up after the enriched insert
AfterInsertNoRetry(attempt, ok) == "done"

\* where logScan continues after an insert attempt (lines 64-94): a failed
\* enriched insert enters the catch block and its minimal insert, a failed
\* minimal insert is logged, and a successful insert ends the task
AfterInsert(attempt, ok) ==
  IF ok THEN "done"
  ELSE IF attempt = "enriched" THEN "retry" ELSE "done"

\* line 65: await getLocationFromIP(clientIP || '')
RecGeo(r) ==
  /\ rec[r].pc = "geo"
  /\ \E env \in RecEnvs :
       LET g == GetLocationFromIP(req[r].ip, env)
       IN  rec' = [rec EXCEPT ![r] =
                     [@ EXCEPT !.pc = IF g.threw THEN "retry" ELSE "insert",
                               !.loc = g.loc, !.calls = Len(g.calls)]]
  /\ UNCHANGED <<now, nextQr, qrCode, scan, req, op, callVars>>

\* lines 67-78: the enriched insert
RecInsert(r) ==
  /\ rec[r].pc = "insert"
  /\ \E dbOk \in BOOLEAN :
       LET row == EnrichedRow(r, rec[r].loc)
           ok == CanInsert(row, dbOk)
       IN  /\ scan' = IF ok THEN scan \cup {row} ELSE scan
           /\ rec' = [rec EXCEPT ![r] =
                        [IdleRec EXCEPT !.pc = AfterInsert("enriched", ok),
                                        !.stored = IF ok THEN "enriched" ELSE "none"]]
  /\ UNCHANGED <<now, nextQr, qrCode, req, op, callVars>>

\* lines 80-93: the minimal insert of the catch block
RecRetry(r) ==
  /\ rec[r].pc = "retry"
  /\ \E dbOk \in BOOLEAN :
       LET row == MinimalRow(r)
           ok == CanInsert(row, dbOk)
       IN  /\ scan' = IF ok THEN scan \cup {row} ELSE scan
           /\ rec' = [rec EXCEPT ![r] =
                        [IdleRec EXCEPT !.pc = AfterInsert("minimal", ok),
                                        !.stored = IF ok THEN "minimal" ELSE "none"]]
  /\ UNCHANGED <<now, nextQr, qrCode, req, op, callVars>>

(***************************************************************************)
(* routes/qr.ts: the owner's requests                                      *)
(***************************************************************************)
\* POST /qr/url (lines 415-447)
CreateQr(u, url, dynamic, password, expiresAt) ==
  /\ nextQr < MaxQr
  /\ nextQr' = nextQr + 1
  /\ qrCode' = qrCode \cup
       { [id |-> nextQr + 1, slug |-> nextQr + 1, originalUrl |-> url,
          dynamic |-> dynamic,
          passwordHash |-> IF Falsy(password) THEN NoHash ELSE HashPassword(password),
          expiresAt |-> expiresAt, ownerId |-> u] }
  /\ UNCHANGED <<now, scan, req, rec, op, callVars>>

\* PUT /qr/:id up to the await of prisma.qrCode.update (lines 459-497)
PutFind(u, id, url, status) ==
  /\ op.pc = "done"
  /\ LET q == QrOwnedBy(id, u)
         answered(code) == [IdleOp EXCEPT !.kind = "put", !.resp = code]
     \* at is the new Date() of line 494, read only for status inactive
     IN  op' = IF q = NoQr THEN answered("404")
               ELSE IF url # <<>> /\ ~q.dynamic THEN answered("400")
               ELSE [IdleOp EXCEPT !.kind = "put", !.pc = "update", !.user = u, !.id = id,
                                   !.url = url, !.status = status,
                                   !.at = IF status = "inactive" THEN now ELSE 0]
  /\ UNCHANGED <<now, nextQr, qrCode, scan, req, rec, callVars>>

\* Updated without the status branch of lines 492-497
UpdatedKeepsExpiry(q, url, status, at) ==
  [q EXCEPT !.originalUrl = IF url # <<>> THEN url ELSE @]

\* the row prisma.qrCode.update writes from updateData (lines 470-497)
Updated(q, url, status, at) ==
  [q EXCEPT !.originalUrl = IF url # <<>> THEN url ELSE @,
            !.expiresAt = IF status = "inactive" THEN Some(at)
                          ELSE IF status = "active" THEN None ELSE @]

\* PUT /qr/:id from prisma.qrCode.update on (lines 499-504)
PutUpdate ==
  /\ op.kind = "put" /\ op.pc = "update"
  /\ IF \E q \in qrCode : q.id = op.id
     THEN LET q == CHOOSE x \in qrCode : x.id = op.id
          IN  /\ qrCode' = (qrCode \ {q}) \cup {Updated(q, op.url, op.status, op.at)}
              /\ op' = [IdleOp EXCEPT !.kind = "put", !.resp = "200"]
     ELSE /\ qrCode' = qrCode
          /\ op' = [IdleOp EXCEPT !.kind = "put", !.resp = "500"]
  /\ UNCHANGED <<now, nextQr, scan, req, rec, callVars>>

\* DELETE /qr/:id up to the await of prisma.scan.deleteMany (lines 508-515)
DelFind(u, id) ==
  /\ op.pc = "done"
  /\ LET q == QrOwnedBy(id, u)
     IN  op' = IF q = NoQr
               THEN [IdleOp EXCEPT !.kind = "delete", !.resp = "404"]
               ELSE [IdleOp EXCEPT !.kind = "delete", !.pc = "delScans", !.user = u, !.id = id]
  /\ UNCHANGED <<now, nextQr, qrCode, scan, req, rec, callVars>>

\* prisma.scan.deleteMany({ where: { qrId } }) (lines 515-517)
DelScans ==
  /\ op.kind = "delete" /\ op.pc = "delScans"
  /\ scan' = {s \in scan : s.qrId # op.id}
  /\ op' = [op EXCEPT !.pc = "delQr"]
  /\ UNCHANGED <<now, nextQr, qrCode, req, rec, callVars>>

\* prisma.qrCode.delete: refused while a Scan row references the QrCode row
\* (Scan_qrId_fkey is ON DELETE RESTRICT) or when the row is gone
DelQr ==
  /\ op.kind = "delete" /\ op.pc = "delQr"
  /\ IF /\ \E q \in qrCode : q.id = op.id
        /\ ~\E s \in scan : s.qrId = op.id
     THEN /\ qrCode' = {q \in qrCode : q.id # op.id}
          /\ op' = [IdleOp EXCEPT !.kind = "delete", !.resp = "200"]
     ELSE /\ qrCode' = qrCode
          /\ op' = [IdleOp EXCEPT !.kind = "delete", !.resp = "500"]
  /\ UNCHANGED <<now, nextQr, scan, req, rec, callVars>>

\* the text GET /qr/:id/image encodes in the image (lines 531-533)
ImageTarget(q) ==
  IF q.dynamic THEN <<ServerHost, "scan", q.slug>> ELSE q.originalUrl

\* GET /qr/:id/image (lines 525-542)
GetImage(u, id) ==
  /\ op.pc = "done"
  /\ LET q == QrOwnedBy(id, u)
     IN  op' = IF q = NoQr
               THEN [IdleOp EXCEPT !.kind = "image", !.user = u, !.id = id, !.resp = "404"]
               ELSE [IdleOp EXCEPT !.kind = "image", !.user = u, !.id = id, !.resp = "200",
                                   !.target = ImageTarget(q)]
  /\ UNCHANGED <<now, nextQr, qrCode, scan, req, rec, callVars>>

(***************************************************************************)
(* The environment of the server                                           *)
(***************************************************************************)
\* time passes
Tick ==
  /\ now < MaxTime
  /\ now' = now + 1
  /\ UNCHANGED <<nextQr, qrCode, scan, req, rec, op, callVars>>

\* the process is torn down: every task in flight is lost
InFlight ==
  \/ \E r \in Reqs : req[r].pc = "comparing" \/ rec[r].pc \in {"geo", "insert", "retry"}
  \/ op.pc # "done"
TearDown ==
  /\ InFlight
  /\ req' = [r \in Reqs |-> IF req[r].pc = "comparing"
                             THEN [req[r] EXCEPT !.pc = "aborted"] ELSE req[r]]
  /\ rec' = [r \in Reqs |-> IF rec[r].pc \in {"geo", "insert", "retry"}
                             THEN [IdleRec EXCEPT !.pc = "lost"] ELSE rec[r]]
  /\ op' = IF op.pc # "done" THEN [op EXCEPT !.pc = "done", !.resp = "aborted"] ELSE op
  /\ UNCHANGED <<now, nextQr, qrCode, scan, callVars>>

(***************************************************************************)
(* lib/team.ts: the team resolver                                          *)
(***************************************************************************)
\* A user id is the sequence of its characters.
AlnumChars ==
  { "a", "b", "c", "d", "e", "f", "g", "h", "i", "j", "k", "l", "m",
    "n", "o", "p", "q", "r", "s", "t", "u", "v", "w", "x", "y", "z",
    "A", "B", "C", "D", "E", "F", "G", "H", "I", "J", "K", "L", "M",
    "N", "O", "P", "Q", "R", "S", "T", "U", "V", "W", "X", "Y", "Z",
    "0", "1", "2", "3", "4", "5", "6", "7", "8", "9" }
DigitChars == <<"0", "1", "2", "3", "4", "5", "6", "7", "8", "9">>

\* validateUserId does not throw: the negation of the condition of line 14
ValidUserId(userId) ==
  /\ userId # <<>>
  /\ Len(userId) >= 8
  /\ \A i \in 1..Len(userId) : userId[i] \in AlnumChars

\* the while loop of line 72 runs while depth < 10
DepthCeiling == 10

\* bounds of the invitation graphs
MaxUsers == 3
MaxChain == 12

\* the id storage gives the n-th user, and an id of no user
UserId(n) == <<"c", "k", "u", "s", "e", "r", DigitChars[(n \div 10) + 1], DigitChars[(n % 10) + 1]>>
GhostId == <<"c", "k", "g", "o", "n", "e", "0", "0">>
\* column invitedBy is null
NoId == <<>>
\* ids that fail the format check: empty, too short, and with a hyphen
MalformedIds ==
  { <<>>, <<"a", "b", "c">>, <<"c", "k", "u", "s", "-", "e", "r", "0", "1">> }

Roles == {"admin", "editor", "viewer"}

\* Table User is the set of its rows (id, role, invitedBy; the email is left
\* out).  GraphStores: every invitation graph over MaxUsers users, where an
\* inviter may have been deleted since.
GraphStores ==
  { { [id |-> UserId(n), role |-> f[n].role, invitedBy |-> f[n].invitedBy] :
        n \in 1..MaxUsers } :
      f \in [1..MaxUsers ->
               [role : Roles,
                invitedBy : {NoId, GhostId} \cup {UserId(m) : m \in 1..MaxUsers}]] }

\* ChainStores: every chain of len users, each invited by the next one, whose
\* top is the original admin, an editor invited by nobody, invited by a
\* deleted user, or invited by the bottom of the chain.
ChainTops == {"root", "nobody", "dangling", "cycle"}
ChainStore(len, top) ==
  { [id |-> UserId(n),
     role |-> IF n = len /\ top = "root" THEN "admin" ELSE "editor",
     invitedBy |-> IF n < len THEN UserId(n + 1)
                   ELSE CASE top = "dangling" -> GhostId
                          [] top = "cycle" -> UserId(1)
                          [] OTHER -> NoId] :
      n \in 1..len }
ChainStores == { ChainStore(len, top) : len \in 1..MaxChain, top \in ChainTops }

TeamStores == GraphStores \cup ChainStores

\* prisma.user.findUnique({ where: { id } })
NoUser == [id |-> NoId]
FindUnique(store, id) ==
  IF \E u \in store : u.id = id THEN CHOOSE u \in store : u.id = id ELSE NoUser

\* FindManyTeam without { id: adminId }
FindManyTeamInvitees(store, adminId) == { u \in store : u.invitedBy = adminId }

\* prisma.user.findMany({ where: { OR: [{ invitedBy: adminId }, { id: adminId }] } })
FindManyTeam(store, adminId) ==
  { u \in store : u.invitedBy = adminId \/ u.id = adminId }

\* lines 48 and 88: role === 'admin' && !invitedBy
IsOriginalAdmin(u) == u.role = "admin" /\ u.invitedBy = NoId

\* SelfOnly returning nobody
SelfOnlyEmpty(user) == {}

\* line 117: teamMembers = [user]
SelfOnly(user) == {user}

\* the while loop of lines 72-95; lookups counts the storage queries
RECURSIVE WalkUp(_, _, _, _)
WalkUp(store, currentUser, depth, lookups) ==
  IF currentUser.invitedBy = NoId \/ depth >= DepthCeiling
  THEN [threw |-> "none", adminId |-> NoId, lookups |-> lookups]
  ELSE IF ~ValidUserId(currentUser.invitedBy)
  THEN [threw |-> "Invalid user ID format", adminId |-> NoId, lookups |-> lookups]
  ELSE LET inviter == FindUnique(store, currentUser.invitedBy)
       IN  IF inviter = NoUser
           THEN [threw |-> "none", adminId |-> NoId, lookups |-> lookups + 1]
           ELSE IF IsOriginalAdmin(inviter)
           THEN [threw |-> "none", adminId |-> inviter.id, lookups |-> lookups + 1]
           ELSE WalkUp(store, inviter, depth + 1, lookups + 1)

\* the result of a call: the message of the error it threw or "none", the
\* rows it returned, and the storage queries it executed
Thrown(message, lookups) == [threw |-> message, members |-> {}, lookups |-> lookups]

\* the try block of getTeamMembers (lines 29-121)
GetTeamMembersTry(store, userId) ==
  LET user == FindUnique(store, userId)
  IN  IF user = NoUser THEN Thrown("User not found", 1)
      ELSE IF IsOriginalAdmin(user)
      THEN [threw |-> "none", members |-> FindManyTeam(store, user.id), lookups |-> 2]
      ELSE LET w == WalkUp(store, user, 0, 1)
           IN  IF w.threw # "none" THEN Thrown(w.threw, w.lookups)
               ELSE IF w.adminId # NoId
               THEN IF ValidUserId(w.adminId)
                    THEN [threw |-> "none", members |-> FindManyTeam(store, w.adminId),
                          lookups |-> w.lookups + 1]
                    ELSE Thrown("Invalid user ID format", w.lookups)
               ELSE [threw |-> "none", members |-> SelfOnly(user), lookups |-> w.lookups]

\* the catch block of getTeamMembers (lines 122-125)
GetTeamMembersCatch(t) ==
  IF t.threw # "none" THEN Thrown("Failed to get team members", t.lookups) ELSE t

\* getTeamMembers with the format check moved into the try block
GetTeamMembersLateCheck(store, userId) ==
  GetTeamMembersCatch(
    IF ValidUserId(userId)
    THEN GetTeamMembersTry(store, userId)
    ELSE Thrown("Invalid user ID format", 1))

\* getTeamMembers (lines 26-126)
GetTeamMembers(store, userId) ==
  IF ~ValidUserId(userId)
  THEN Thrown("Invalid user ID format", 0)
  ELSE GetTeamMembersCatch(GetTeamMembersTry(store, userId))

\* getTeamMemberIds (lines 131-134)
GetTeamMemberIds(store, userId) ==
  LET t == GetTeamMembers(store, userId)
  IN  [threw |-> t.threw, ids |-> {member.id : member \in t.members}, lookups |-> t.lookups]

\* areTeamMembers (lines 139-149): every error is answered false
AreTeamMembers(store, userId1, userId2) ==
  IF ~ValidUserId(userId1) \/ ~ValidUserId(userId2)
  THEN [threw |-> "none", value |-> FALSE, lookups |-> 0]
  ELSE LET team1 == GetTeamMemberIds(store, userId1)
       IN  [threw |-> "none",
            value |-> team1.threw = "none" /\ userId2 \in team1.ids,
            lookups |-> team1.lookups]

\* the ids a caller passes: of a user, of a deleted user, or malformed
QueryIds(store) == {u.id : u \in store} \cup {GhostId} \cup MalformedIds

NoTeamResult == [threw |-> "none", ids |-> {}, lookups |-> 0]
TeamIdle ==
  /\ tIn = [store |-> {}, userId |-> NoId, userId2 |-> NoId]
  /\ tOut = [pc |-> "idle", members |-> Thrown("none", 0), ids |-> NoTeamResult,
             are |-> [threw |-> "none", value |-> FALSE, lookups |-> 0],
             ids2 |-> NoTeamResult,
             back |-> [threw |-> "none", value |-> FALSE, lookups |-> 0]]

\* one call of each exported function on the same table
TeamCall ==
  /\ tOut.pc = "idle"
  /\ tOut' = [tOut EXCEPT !.pc = "returned",
                          !.members = GetTeamMembers(tIn.store, tIn.userId),
                          !.ids = GetTeamMemberIds(tIn.store, tIn.userId),
                          !.are = AreTeamMembers(tIn.store, tIn.userId, tIn.userId2)]
  /\ UNCHANGED <<tIn, pipeVars, geoVars, statsVars, acctVars>>

\* getTeamMemberIds and areTeamMembers called for two users in both orders:
\* ids2 and back are the results with the users exchanged
TeamPairCall ==
  /\ tOut.pc = "idle"
  /\ tOut' = [tOut EXCEPT !.pc = "returned",
                          !.ids = GetTeamMemberIds(tIn.store, tIn.userId),
                          !.are = AreTeamMembers(tIn.store, tIn.userId, tIn.userId2),
                          !.ids2 = GetTeamMemberIds(tIn.store, tIn.userId2),
                          !.back = AreTeamMembers(tIn.store, tIn.userId2, tIn.userId)]
  /\ UNCHANGED <<tIn, pipeVars, geoVars, statsVars, acctVars>>

(***************************************************************************)
(* routes/qr.ts: GET /qr/stats                                             *)
(***************************************************************************)
\* A Date is month, day of month and minute of the day of the server's
\* local time, in a year that is not a leap year.
DaysIn == <<31, 28, 31, 30, 31, 30, 31, 31, 30, 31, 30, 31>>

RECURSIVE DaysBefore(_)
DaysBefore(month) == IF month = 1 THEN 0 ELSE DaysIn[month - 1] + DaysBefore(month - 1)

\* Date.getTime(), in minutes
GetTime(d) == ((DaysBefore(d.month) + d.day - 1) * (24 * 60)) + d.minute

\* setDate(1); setHours(0, 0, 0, 0)
StartOfMonth(d) == [month |-> d.month, day |-> 1, minute |-> 0]

\* setMonth(getMonth() - 1): the same day of the month before; a day that
\* month does not have runs over into the month after it
SetMonthBack(d) ==
  IF d.day <= DaysIn[d.month - 1]
  THEN [d EXCEPT !.month = d.month - 1]
  ELSE [d EXCEPT !.day = d.day - DaysIn[d.month - 1]]

\* lines 251-255
StartOfLastMonth(d) == StartOfMonth(SetMonthBack(d))

\* the dates of the model: when rows were created, and when stats are asked
Feb10 == [month |-> 2, day |-> 10, minute |-> 720]
Mar02 == [month |-> 3, day |-> 2, minute |-> 540]
Mar15 == [month |-> 3, day |-> 15, minute |-> 570]
CreatedDates == {Feb10, Mar02, Mar15}
StatsDates ==
  { [month |-> 3, day |-> 15, minute |-> 600], [month |-> 3, day |-> 31, minute |-> 600] }

\* table User of the stats model: the original admin, an editor the admin
\* invited, and a user of no team
AdminId == UserId(1)
EditorId == UserId(2)
LonerId == UserId(3)
StatsUsers ==
  { [id |-> AdminId, role |-> "admin", invitedBy |-> NoId],
    [id |-> EditorId, role |-> "editor", invitedBy |-> AdminId],
    [id |-> LonerId, role |-> "viewer", invitedBy |-> NoId] }

\* the rows table QrCode may hold (columns id, name, ownerId, createdAt)
LinkRows ==
  { [id |-> 1, name |-> Absent, ownerId |-> AdminId, createdAt |-> Mar02],
    [id |-> 2, name |-> "Menu", ownerId |-> EditorId, createdAt |-> Feb10],
    [id |-> 3, name |-> "Flyer", ownerId |-> LonerId, createdAt |-> Mar02] }

\* A user agent is the sequence of its tokens.
UaIPhone == <<"Mozilla/5.0", "iPhone", "Mobile", "Safari">>
UaNone == <<>>
\* the scanners: address, user agent and what the recorder stored as place
Visitors ==
  { [ip |-> "198.51.100.1", ua |-> UaIPhone, country |-> "France", city |-> "Paris"],
    [ip |-> "198.51.100.2", ua |-> UaNone, country |-> Absent, city |-> Absent] }

\* bound of table Scan
MaxScans == 2

\* the rows table Scan may hold, before their id
ScanRows ==
  { [qrId |-> qrId, createdAt |-> d, ip |-> v.ip, ua |-> v.ua,
     country |-> v.country, city |-> v.city] :
      qrId \in {l.id : l \in LinkRows}, d \in CreatedDates, v \in Visitors }

\* the tables of one stats request: any links, and up to MaxScans scans of
\* these links
ScanTable(f) ==
  { [id |-> i, qrId |-> f[i].qrId, createdAt |-> f[i].createdAt, ip |-> f[i].ip,
     ua |-> f[i].ua, country |-> f[i].country, city |-> f[i].city] : i \in DOMAIN f }
StatsTables ==
  { [links |-> links, scans |-> ScanTable(f)] :
      links \in SUBSET LinkRows,
      f \in UNION { [1..n -> ScanRows] : n \in 0..MaxScans } }

\* Scan_qrId_fkey: every scan references a link of the table
ForeignKeysHold(t) == \A s \in t.scans : \E l \in t.links : l.id = s.qrId

\* where: { ownerId: { in: teamMemberIds } }
ScopedLinks(t, teamMemberIds) == { l \in t.links : l.ownerId \in teamMemberIds }

\* ScopedScans without its where clause
ScopedScansEverybody(t, teamMemberIds) == t.scans

\* where: { qr: { ownerId: { in: teamMemberIds } } }
ScopedScans(t, teamMemberIds) ==
  { s \in t.scans : \E l \in t.links : l.id = s.qrId /\ l.ownerId \in teamMemberIds }

\* createdAt: { gte: from }
Since(rows, from) == { r \in rows : GetTime(r.createdAt) >= GetTime(from) }

\* createdAt: { gte: from, lt: to }
Between(rows, from, to) ==
  { r \in rows : GetTime(r.createdAt) >= GetTime(from) /\ GetTime(r.createdAt) < GetTime(to) }

\* groupBy({ by: ['ip'] }).length
UniqueIps(rows) == Cardinality({ r.ip : r \in rows })

\* A label is a literal text, or a sign, a number and a suffix: the number
\* is an integer (count) or has one decimal (tenths, the number times ten).
\* lines 290-294
QrCodesChange(thisMonth, lastMonth) ==
  IF lastMonth > 0
  THEN [sign |-> IF thisMonth > lastMonth THEN "+" ELSE "",
        count |-> thisMonth - lastMonth, suffix |-> " from last month"]
  ELSE IF thisMonth > 0
  THEN [sign |-> "+", count |-> thisMonth, suffix |-> " this month"]
  ELSE [text |-> "No QR codes yet"]

\* n / d rounded to the nearest integer, halves away from zero (d > 0)
RoundDiv(n, d) ==
  IF n >= 0 THEN ((2 * n) + d) \div (2 * d) ELSE 0 - ((((0 - 2) * n) + d) \div (2 * d))

\* ((thisMonth - lastMonth) / lastMonth * 100).toFixed(1), in tenths
ChangePercentTenths(thisMonth, lastMonth) ==
  RoundDiv((thisMonth - lastMonth) * 1000, lastMonth)

\* PercentChange with a percentage of zero for no data at all
PercentChangeZero(thisMonth, lastMonth, noData) ==
  IF lastMonth > 0
  THEN [sign |-> IF thisMonth >= lastMonth THEN "+" ELSE "",
        tenths |-> ChangePercentTenths(thisMonth, lastMonth),
        suffix |-> "% from last month"]
  ELSE [sign |-> "+", tenths |-> IF thisMonth > 0 THEN 1000 ELSE 0,
        suffix |-> "% this month"]

\* lines 296-302 (scans) and 304-310 (visitors)
PercentChange(thisMonth, lastMonth, noData) ==
  IF lastMonth > 0
  THEN [sign |-> IF thisMonth >= lastMonth THEN "+" ELSE "",
        tenths |-> ChangePercentTenths(thisMonth, lastMonth),
        suffix |-> "% from last month"]
  ELSE IF thisMonth > 0
  THEN [text |-> "+100% this month"]
  ELSE [text |-> noData]

\* String.toLowerCase on the tokens of the model
ToLowerCase(token) ==
  CASE token = "iPhone" -> "iphone"
    [] token = "iPad" -> "ipad"
    [] token = "Mobile" -> "mobile"
    [] token = "Android" -> "android"
    [] token = "Tablet" -> "tablet"
    [] OTHER -> token

\* ua.includes(word), ua in lower case
UaIncludes(ua, word) == \E i \in 1..Len(ua) : ToLowerCase(ua[i]) = word

\* lines 121-128
DeviceOf(ua) ==
  IF UaIncludes(ua, "mobile") \/ UaIncludes(ua, "android") \/ UaIncludes(ua, "iphone")
  THEN "mobile"
  ELSE IF UaIncludes(ua, "tablet") \/ UaIncludes(ua, "ipad")
  THEN "tablet"
  ELSE "desktop"

\* Math.round((n / total) * 100)
Percentage(n, total) == RoundDiv(n * 100, total)

\* lines 120-149
DeviceAnalytics(rows) ==
  LET scansOf(device) == Cardinality({ s \in rows : DeviceOf(s.ua) = device })
      sum == scansOf("mobile") + scansOf("desktop") + scansOf("tablet")
      totalDeviceScans == IF sum = 0 THEN 1 ELSE sum
      entry(name, device) ==
        [device |-> name, percentage |-> Percentage(scansOf(device), totalDeviceScans),
         scans |-> scansOf(device)]
  IN  <<entry("Mobile", "mobile"), entry("Desktop", "desktop"), entry("Tablet", "tablet")>>

\* take: 5
TopN == 5

\* orderBy descending on field key; rows with equal keys are in the order
\* storage gives them, here a fixed one
RECURSIVE OrderDesc(_)
OrderDesc(S) ==
  IF S = {} THEN <<>>
  ELSE LET top == CHOOSE x \in S : \A y \in S : x.key >= y.key
       IN  <<top>> \o OrderDesc(S \ {top})

Take(seq, n) == SubSeq(seq, 1, IF Len(seq) < n THEN Len(seq) ELSE n)

\* name || 'Unnamed QR Code'
NameOf(name) == IF Falsy(name) THEN "Unnamed QR Code" ELSE name

\* lines 93-109 and 334-342: _count.scans counts every scan of the link
TopQrCodes(t, teamMemberIds) ==
  LET counted == { [key |-> Cardinality({ s \in t.scans : s.qrId = l.id }), qr |-> l] :
                     l \in ScopedLinks(t, teamMemberIds) }
      top == Take(OrderDesc(counted), TopN)
  IN  [i \in 1..Len(top) |->
         [name |-> NameOf(top[i].qr.name), scans |-> top[i].key,
          change |-> IF top[i].key > 0 THEN "Active" ELSE "No scans"]]

\* lines 175-196
CountryFlags ==
  [c \in { "United States", "United Kingdom", "Germany", "France", "Canada",
           "Australia", "Japan", "South Korea", "Brazil", "India", "China",
           "Italy", "Spain", "Netherlands", "Switzerland", "Sweden", "Norway",
           "Denmark", "Belgium", "Austria" } |-> <<"flag of", c>>]

\* countryFlags[country || ''] || the globe
FlagOf(country) ==
  IF country \in DOMAIN CountryFlags THEN CountryFlags[country] ELSE <<"globe">>

\* lines 152-202: the scans by country, null left out
TopLocations(rows) ==
  LET groups == { [key |-> Cardinality({ s \in rows : s.country = c }), country |-> c] :
                    c \in { s.country : s \in rows } \ {Absent} }
      top == Take(OrderDesc(groups), TopN)
  IN  [i \in 1..Len(top) |->
         [country |-> IF Falsy(top[i].country) THEN "Unknown" ELSE top[i].country,
          scans |-> top[i].key, flag |-> FlagOf(top[i].country)]]

\* lines 228-239
FormatTimeAgo(current, date) ==
  LET diffMins == GetTime(current) - GetTime(date)
      diffHours == diffMins \div 60
      diffDays == diffHours \div 24
  IN  IF diffMins < 1 THEN [text |-> "Just now"]
      ELSE IF diffMins < 60
      THEN [n |-> diffMins, unit |-> IF diffMins = 1 THEN "minute" ELSE "minutes"]
      ELSE IF diffHours < 24
      THEN [n |-> diffHours, unit |-> IF diffHours = 1 THEN "hour" ELSE "hours"]
      ELSE [n |-> diffDays, unit |-> IF diffDays = 1 THEN "day" ELSE "days"]

\* lines 245-247
LocationOf(s) ==
  IF ~Falsy(s.city) /\ ~Falsy(s.country) THEN <<s.city, s.country>>
  ELSE IF ~Falsy(s.country) THEN <<s.country>>
  ELSE <<"Unknown location">>

\* lines 205-248: the latest scans first
RecentActivity(t, rows, current) ==
  LET keyed == { [key |-> GetTime(s.createdAt), scan |-> s] : s \in rows }
      top == Take(OrderDesc(keyed), TopN)
      qrOf(s) == CHOOSE l \in t.links : l.id = s.qrId
  IN  [i \in 1..Len(top) |->
         [action |-> "QR Code scanned", qr |-> NameOf(qrOf(top[i].scan).name),
          time |-> FormatTimeAgo(current, top[i].scan.createdAt),
          location |-> LocationOf(top[i].scan)]]

\* the answer of the catch block (lines 349-352)
StatsFailed == [status |-> 500, error |-> "Failed to fetch statistics"]

\* the counts of the handler (lines 25-40, 69-87, 257-287) for the team
\* teamMemberIds, on tables t at date current
StatsCounts(t, teamMemberIds, current) ==
  LET startOfMonth == StartOfMonth(current)
      startOfLastMonth == StartOfLastMonth(current)
      links == ScopedLinks(t, teamMemberIds)
      scans == ScopedScans(t, teamMemberIds)
  IN  [totalQrCodes |-> Cardinality(links),
       qrCodesThisMonth |-> Cardinality(Since(links, startOfMonth)),
       totalScans |-> Cardinality(scans),
       scansThisMonth |-> Cardinality(Since(scans, startOfMonth)),
       uniqueVisitors |-> UniqueIps(Since(scans, startOfMonth)),
       qrCodesLastMonth |-> Cardinality(Between(links, startOfLastMonth, startOfMonth)),
       scansLastMonth |-> Cardinality(Between(scans, startOfLastMonth, startOfMonth)),
       uniqueVisitorsLastMonth |-> UniqueIps(Between(scans, startOfLastMonth, startOfMonth))]

\* the queries of the handler whose answers reach the response, in the
\* order of their awaits (lines 25, 35, 43, 72, 80, 93, 112, 152, 205, 257,
\* 267, 278)
StatsQueries ==
  <<"totalQrCodes", "qrCodesThisMonth", "totalScans", "scansThisMonth", "uniqueVisitors",
    "topPerformingQrCodes", "deviceAnalytics", "topLocations", "recentActivity",
    "qrCodesLastMonth", "scansLastMonth", "uniqueVisitorsLastMonth">>

\* what the handler makes of the answer of one query on tables t
StatsQuery(name, t, teamMemberIds, current) ==
  LET scans == ScopedScans(t, teamMemberIds)
  IN  CASE name = "topPerformingQrCodes" -> TopQrCodes(t, teamMemberIds)
        [] name = "deviceAnalytics" -> DeviceAnalytics(Since(scans, StartOfMonth(current)))
        [] name = "topLocations" -> TopLocations(scans)
        [] name = "recentActivity" -> RecentActivity(t, scans, current)
        [] OTHER -> StatsCounts(t, teamMemberIds, current)[name]

\* every query answered on the same tables t
StatsAnswers(t, teamMemberIds, current) ==
  LET n == StatsCounts(t, teamMemberIds, current)
  IN  [name \in {StatsQueries[i] : i \in 1..Len(StatsQueries)} |->
         IF name \in DOMAIN n THEN n[name]
         ELSE StatsQuery(name, t, teamMemberIds, current)]

\* the response the handler builds from the answers n (lines 290-346)
StatsResponse(n) ==
  LET qrCodesChange == QrCodesChange(n.qrCodesThisMonth, n.qrCodesLastMonth)
  IN  [status |-> 200,
       overview |->
         [totalQrCodes |-> [value |-> n.totalQrCodes, change |-> qrCodesChange],
          totalScans |->
            [value |-> n.totalScans,
             change |-> PercentChange(n.scansThisMonth, n.scansLastMonth,
                                      "No scans yet")],
          uniqueVisitors |->
            [value |-> n.uniqueVisitors,
             change |-> PercentChange(n.uniqueVisitors, n.uniqueVisitorsLastMonth,
                                      "No visitors yet")],
          downloads |-> [value |-> n.totalQrCodes, change |-> qrCodesChange]],
       topPerformingQrCodes |-> n.topPerformingQrCodes,
       deviceAnalytics |-> n.deviceAnalytics,
       topLocations |-> n.topLocations,
       recentActivity |-> n.recentActivity]

\* the handler of GET /qr/stats (lines 12-353) for the user of the token, on
\* tables t at date current, no write landing between its queries
GetStats(users, userId, t, current) ==
  LET team == GetTeamMemberIds(users, userId)
      teamMemberIds == team.ids
  IN  IF team.threw # "none" \/ \E id \in teamMemberIds : ~ValidUserId(id)
      THEN StatsFailed
      ELSE StatsResponse(StatsAnswers(t, teamMemberIds, current))

\* the tables with every link of an owner outside ids, and every scan of
\* such a link, removed
WithoutOthers(t, ids) ==
  [links |-> { l \in t.links : l.ownerId \in ids },
   scans |-> { x \in t.scans : \E l \in t.links : l.id = x.qrId /\ l.ownerId \in ids }]

\* the users a token may name: the three users and a user deleted since
StatsUserIds == {u.id : u \in StatsUsers} \cup {GhostId}

NoStats == [status |-> 0]
\* counts holds the counts the labels of the response were made of
IdleStats == [pc |-> "idle", response |-> NoStats, twin |-> NoStats, counts |-> <<>>]
StatsIdle ==
  /\ sIn = [userId |-> NoId, tables |-> [links |-> {}, scans |-> {}], date |-> Mar15]
  /\ sOut = IdleStats

\* GET /qr/stats is answered; twin is the answer of the same request on
\* tables that hold nothing of the owners outside the requester's team
StatsCall ==
  /\ sOut.pc = "idle"
  /\ LET ids == GetTeamMemberIds(StatsUsers, sIn.userId).ids
     IN  sOut' = [pc |-> "returned",
                  response |-> GetStats(StatsUsers, sIn.userId, sIn.tables, sIn.date),
                  twin |-> GetStats(StatsUsers, sIn.userId,
                                    WithoutOthers(sIn.tables, ids), sIn.date),
                  counts |-> StatsCounts(sIn.tables, ids, sIn.date)]
  /\ UNCHANGED <<sIn, pipeVars, geoVars, teamVars, acctVars>>

(***************************************************************************)
(* Accounts: routes/auth.ts (signup, Google sign-in) and routes/users.ts   *)
(* (invite, role update, removal)                                          *)
(***************************************************************************)
\* bounds: requests served at once, rows of table User and of table
\* Invitation ever created
MaxSignups == 2
MaxIds == 3
MaxInvites == 1
Procs == 1..MaxSignups

\* the addresses people sign up with; two differ in case only
Emails == {"ann@x.io", "Ann@x.io", "bob@x.io"}
\* String.toLowerCase on the addresses of the model
EmailLower(email) == IF email = "Ann@x.io" THEN "ann@x.io" ELSE email

\* req.body.inviteToken is not there; the tokens generateToken() gives
NoToken == 0
Tokens == 1..MaxInvites
\* z.enum(['editor', 'viewer']) (users.ts line 12)
AssignableRoles == {"editor", "viewer"}

\* role, invitedBy and email are the locals of the handler between its
\* awaits
IdleSignup ==
  [pc |-> "idle", kind |-> "signup", email |-> "", token |-> NoToken, role |-> "",
   invitedBy |-> NoId, resp |-> "none"]
AcctIdle ==
  /\ userTbl = {}
  /\ invitation = {}
  /\ signup = [p \in Procs |-> IdleSignup]
  /\ nextId = 0

\* the slot is free for the next request
Free(p) == signup[p].pc \in {"idle", "done"}
\* the request is answered with the status code
SignupAnswer(p, code) ==
  [IdleSignup EXCEPT !.pc = "done", !.kind = signup[p].kind, !.token = signup[p].token,
                     !.resp = code]

\* prisma.user.count() === 0 ? 'admin' : 'user' (auth.ts lines 171-172, 369-370)
FirstUserRole == IF userTbl = {} THEN "admin" ELSE "user"

\* POST /auth/signup with an invite token, up to the await of
\* prisma.invitation.update (auth.ts lines 118-168); the invitation is
\* within its seven days
SignupInvite(p, email, inviteToken) ==
  /\ Free(p)
  /\ LET found == { i \in invitation : i.token = inviteToken }
         rejected == [IdleSignup EXCEPT !.pc = "done", !.token = inviteToken, !.resp = "400"]
     IN  signup' = [signup EXCEPT ![p] =
           IF found = {} THEN rejected
           ELSE LET i == CHOOSE x \in found : TRUE
                IN  IF i.used THEN rejected
                    ELSE IF EmailLower(i.email) # EmailLower(email) THEN rejected
                    ELSE [IdleSignup EXCEPT !.pc = "mark", !.email = email,
                                            !.token = inviteToken, !.role = i.role,
                                            !.invitedBy = i.invitedBy]]
  /\ UNCHANGED <<userTbl, invitation, nextId, pipeVars, geoVars, teamVars, statsVars>>

\* prisma.invitation.update({ data: { used: true } }) (auth.ts lines 165-168)
SignupMark(p) ==
  /\ signup[p].pc = "mark"
  /\ IF \E i \in invitation : i.id = signup[p].token
     THEN /\ invitation' = { IF i.id = signup[p].token THEN [i EXCEPT !.used = TRUE] ELSE i :
                               i \in invitation }
          /\ signup' = [signup EXCEPT ![p].pc = "exists"]
     ELSE /\ invitation' = invitation
          /\ signup' = [signup EXCEPT ![p] = SignupAnswer(p, "500")]
  /\ UNCHANGED <<userTbl, nextId, pipeVars, geoVars, teamVars, statsVars>>

\* POST /auth/signup without token, up to the await of
\* prisma.user.findUnique (auth.ts lines 118-139, 169-184); the address
\* passes the verification service
SignupPlain(p, email) ==
  /\ Free(p)
  /\ signup' = [signup EXCEPT ![p] =
       [IdleSignup EXCEPT !.pc = "exists", !.email = email, !.role = FirstUserRole]]
  /\ UNCHANGED <<userTbl, invitation, nextId, pipeVars, geoVars, teamVars, statsVars>>

\* prisma.user.findUnique({ where: { email } }) (auth.ts lines 186-189)
SignupExists(p) ==
  /\ signup[p].pc = "exists"
  /\ signup' = [signup EXCEPT ![p] =
       IF \E u \in userTbl : u.email = signup[p].email
       THEN SignupAnswer(p, "409")
       ELSE [signup[p] EXCEPT !.pc = "create"]]
  /\ UNCHANGED <<userTbl, invitation, nextId, pipeVars, geoVars, teamVars, statsVars>>

\* prisma.user.create (auth.ts lines 193-201, 373-380): User_email_key
\* refuses a second row with the address, which the catch block answers
SignupCreate(p) ==
  /\ signup[p].pc = "create"
  /\ nextId < MaxIds
  /\ IF \E u \in userTbl : u.email = signup[p].email
     THEN /\ signup' = [signup EXCEPT ![p] = SignupAnswer(p, "500")]
          /\ UNCHANGED <<userTbl, nextId>>
     ELSE /\ userTbl' = userTbl \cup
                { [id |-> UserId(nextId + 1), email |-> signup[p].email,
                   role |-> signup[p].role, invitedBy |-> signup[p].invitedBy] }
          /\ nextId' = nextId + 1
          /\ signup' = [signup EXCEPT ![p] =
               SignupAnswer(p, IF signup[p].kind = "google" THEN "200" ELSE "201")]
  /\ UNCHANGED <<invitation, pipeVars, geoVars, teamVars, statsVars>>

\* POST /auth/google up to the await of hashPassword (auth.ts lines 359-366)
Google(p, email) ==
  /\ Free(p)
  /\ signup' = [signup EXCEPT ![p] =
       IF \E u \in userTbl : u.email = email
       THEN [IdleSignup EXCEPT !.pc = "done", !.kind = "google", !.resp = "200"]
       ELSE [IdleSignup EXCEPT !.pc = "count", !.kind = "google", !.email = email]]
  /\ UNCHANGED <<userTbl, invitation, nextId, pipeVars, geoVars, teamVars, statsVars>>

\* prisma.user.count() of POST /auth/google (auth.ts lines 369-370)
GoogleCount(p) ==
  /\ signup[p].pc = "count"
  /\ signup' = [signup EXCEPT ![p].pc = "create", ![p].role = FirstUserRole]
  /\ UNCHANGED <<userTbl, invitation, nextId, pipeVars, geoVars, teamVars, statsVars>>

\* POST /users/invite by admin a (users.ts lines 71-112) when it creates the
\* invitation: nobody has the address, and a has no invitation for it
Invite(a, email, role) ==
  /\ a \in userTbl /\ a.role = "admin"
  /\ Cardinality(invitation) < MaxInvites
  /\ ~\E u \in userTbl : u.email = email
  /\ ~\E i \in invitation : i.email = email /\ i.invitedBy = a.id
  /\ LET n == Cardinality(invitation) + 1
     IN  invitation' = invitation \cup
           { [id |-> n, token |-> n, email |-> email, role |-> role, used |-> FALSE,
              invitedBy |-> a.id] }
  /\ UNCHANGED <<userTbl, signup, nextId, pipeVars, geoVars, teamVars, statsVars>>

\* PUT /users/:id/role by admin a (users.ts lines 259-308) when it updates
UpdateRole(a, id, role) ==
  /\ a \in userTbl /\ a.role = "admin"
  /\ id # a.id
  /\ \E target \in userTbl :
       /\ target.id = id
       /\ ~IsOriginalAdmin(target)
       /\ userTbl' = (userTbl \ {target}) \cup {[target EXCEPT !.role = role]}
  /\ UNCHANGED <<invitation, signup, nextId, pipeVars, geoVars, teamVars, statsVars>>

\* DELETE /users/:id by admin a (users.ts lines 311-338) when it removes;
\* the rows the removed user invited keep their invitedBy
RemoveUser(a, id) ==
  /\ a \in userTbl /\ a.role = "admin"
  /\ id # a.id
  /\ \E target \in userTbl : target.id = id /\ userTbl' = userTbl \ {target}
  /\ UNCHANGED <<invitation, signup, nextId, pipeVars, geoVars, teamVars, statsVars>>

(***************************************************************************)
(* Specifications                                                          *)
(***************************************************************************)
GeoIdle ==
  /\ gIn = [ip |-> EmptyIP, env |-> CHOOSE e \in RecEnvs : e.primary = "ok"]
  /\ gOut = [pc |-> "idle", threw |-> FALSE, loc |-> NoLocation, calls |-> <<>>]

Init == PipeInit /\ GeoIdle /\ TeamIdle /\ StatsIdle /\ AcctIdle

Slugs == 1..MaxQr
Owner == "u1"

\* Spec: the redirect gate.  One scan request at a time meets a link of any
\* kind (static or dynamic, with or without password and expiry) that its
\* owner updates while time passes.
Next ==
  \/ \E slug \in Slugs, password \in SuppliedPasswords :
       ScanRequest(1, slug, password, ClientIP)
  \/ ScanCompared(1)
  \/ \E dynamic \in BOOLEAN, password \in {"", "pw1"}, expiresAt \in {None, Some(0), Some(1)} :
       CreateQr(Owner, UrlA, dynamic, password, expiresAt)
  \/ \E id \in QrIds, url \in {<<>>, UrlB}, status \in {Absent, "inactive", "active"} :
       PutFind(Owner, id, url, status)
  \/ PutUpdate
  \/ \E id \in QrIds : GetImage(Owner, id)
  \/ Tick

Spec == Init /\ [][Next]_vars

\* SpecRec: the scan recorder.  Concurrent scan requests of dynamic links
\* without password and expiry, their detached logScan tasks, the owner deleting the
\* link meanwhile, and the process being torn down.
NextRec ==
  \/ \E r \in Reqs, slug \in Slugs : ScanRequest(r, slug, Absent, ClientIP)
  \/ \E r \in Reqs : RecGeo(r)
  \/ \E r \in Reqs : RecInsert(r)
  \/ \E r \in Reqs : RecRetry(r)
  \/ CreateQr(Owner, UrlA, TRUE, Absent, None)
  \/ \E id \in QrIds : DelFind(Owner, id)
  \/ DelScans
  \/ DelQr
  \/ TearDown

SpecRec == Init /\ [][NextRec]_vars

\* The event loop runs a continuation of some logScan whenever one is ready:
\* every external call of logScan answers or times out.
RecorderStep == \E r \in Reqs : RecGeo(r) \/ RecInsert(r) \/ RecRetry(r)

FairSpecRec == SpecRec /\ WF_vars(RecorderStep)

\* SpecGeo: getLocationFromIP called with any address under any behaviour of
\* the outside services.
GeoCall ==
  /\ gOut.pc = "idle"
  /\ LET g == GetLocationFromIP(gIn.ip, gIn.env)
     IN  gOut' = [pc |-> "returned", threw |-> g.threw, loc |-> g.loc, calls |-> g.calls]
  /\ UNCHANGED <<gIn, pipeVars, teamVars, statsVars, acctVars>>

InitGeo ==
  /\ PipeInit
  /\ TeamIdle
  /\ StatsIdle
  /\ AcctIdle
  /\ gIn \in [ip : InputIPs, env : GeoEnvs]
  /\ gOut = [pc |-> "idle", threw |-> FALSE, loc |-> NoLocation, calls |-> <<>>]

NextGeo == GeoCall

SpecGeo == InitGeo /\ [][NextGeo]_vars

\* SpecTeam: the three functions of the team resolver called on any table
\* User with any id; areTeamMembers asks whether the first user is in the
\* team.
InitTeam ==
  /\ PipeInit
  /\ GeoIdle
  /\ StatsIdle
  /\ AcctIdle
  /\ \E store \in TeamStores :
       \E userId \in QueryIds(store) :
         tIn = [store |-> store, userId |-> userId, userId2 |-> UserId(1)]
  /\ tOut = [pc |-> "idle", members |-> Thrown("none", 0), ids |-> NoTeamResult,
             are |-> [threw |-> "none", value |-> FALSE, lookups |-> 0],
             ids2 |-> NoTeamResult,
             back |-> [threw |-> "none", value |-> FALSE, lookups |-> 0]]

NextTeam == TeamCall

SpecTeam == InitTeam /\ [][NextTeam]_vars

\* SpecPair: two users of any table User asked about each other.
InitPair ==
  /\ PipeInit
  /\ GeoIdle
  /\ StatsIdle
  /\ AcctIdle
  /\ \E store \in GraphStores :
       \E u \in store :
         tIn = [store |-> store, userId |-> u.id, userId2 |-> UserId(1)]
  /\ tOut = [pc |-> "idle", members |-> Thrown("none", 0), ids |-> NoTeamResult,
             are |-> [threw |-> "none", value |-> FALSE, lookups |-> 0],
             ids2 |-> NoTeamResult,
             back |-> [threw |-> "none", value |-> FALSE, lookups |-> 0]]

NextPair == TeamPairCall

SpecPair == InitPair /\ [][NextPair]_vars

\* SpecStats: GET /qr/stats asked by any user on any tables, in the middle
\* and on the last day of a month.
InitStats ==
  /\ PipeInit
  /\ GeoIdle
  /\ TeamIdle
  /\ AcctIdle
  /\ \E userId \in StatsUserIds, t \in StatsTables, date \in StatsDates :
       /\ ForeignKeysHold(t)
       /\ sIn = [userId |-> userId, tables |-> t, date |-> date]
  /\ sOut = IdleStats

NextStats == StatsCall

SpecStats == InitStats /\ [][NextStats]_vars

(***************************************************************************)
\* SpecDevice: GET /qr/stats asked by the admin, whose one link was scanned
\* this month by browsers of every kind.
UaIPad == <<"Mozilla/5.0", "iPad", "Mobile", "Safari">>
UaIPadApp == <<"Mozilla/5.0", "iPad", "AppleWebKit">>
UaAndroidPhone == <<"Mozilla/5.0", "Linux", "Android", "Mobile", "Chrome">>
UaAndroidTablet == <<"Mozilla/5.0", "Linux", "Android", "Chrome">>
UaKindle == <<"Mozilla/5.0", "Tablet", "Firefox">>
UaWindows == <<"Mozilla/5.0", "Windows", "Chrome">>
DeviceUas ==
  {UaIPhone, UaIPad, UaIPadApp, UaAndroidPhone, UaAndroidTablet, UaKindle, UaWindows,
   UaNone}

DeviceScans(f) ==
  ScanTable([i \in DOMAIN f |->
               [qrId |-> 1, createdAt |-> Mar02, ip |-> "198.51.100.1", ua |-> f[i],
                country |-> Absent, city |-> Absent]])

InitDevice ==
  /\ PipeInit
  /\ GeoIdle
  /\ TeamIdle
  /\ AcctIdle
  /\ \E date \in StatsDates, f \in UNION { [1..n -> DeviceUas] : n \in 1..MaxScans } :
       sIn = [userId |-> AdminId,
              tables |-> [links |-> { l \in LinkRows : l.id = 1 }, scans |-> DeviceScans(f)],
              date |-> date]
  /\ sOut = IdleStats

SpecDevice == InitDevice /\ [][NextStats]_vars

\* SpecOwn: two users of one team, the admin u1 and the editor u2 invited by
\* u1, create, update and delete links while the links are scanned.
IdOf(u) == IF u = "u1" THEN UserId(1) ELSE UserId(2)
OwnUsers ==
  { [id |-> IdOf("u1"), role |-> "admin", invitedBy |-> NoId],
    [id |-> IdOf("u2"), role |-> "editor", invitedBy |-> IdOf("u1")] }

\* the list GET /qr/my-codes answers to user u (part_002 lines 356-412): the
\* links of the whole team, each with its isOwner flag
MyCodes(u) ==
  LET team == GetTeamMemberIds(OwnUsers, IdOf(u))
  IN  IF team.threw # "none" \/ \E id \in team.ids : ~ValidUserId(id)
      THEN [status |-> 500, codes |-> {}]
      ELSE [status |-> 200,
            codes |-> { [id |-> q.id, isOwner |-> q.ownerId = u] :
                          q \in { x \in qrCode : IdOf(x.ownerId) \in team.ids } }]

NextOwn ==
  \/ \E u \in Users : CreateQr(u, UrlA, TRUE, Absent, None)
  \/ \E u \in Users, id \in QrIds, url \in {<<>>, UrlB},
        status \in {Absent, "inactive", "active"} : PutFind(u, id, url, status)
  \/ PutUpdate
  \/ \E u \in Users, id \in QrIds : DelFind(u, id)
  \/ DelScans
  \/ DelQr
  \/ \E slug \in Slugs : ScanRequest(1, slug, Absent, ClientIP)
  \/ RecGeo(1)
  \/ RecInsert(1)
  \/ RecRetry(1)

SpecOwn == Init /\ [][NextOwn]_vars

\* the steps of signing up and inviting with the addresses emails
SignupSteps(emails) ==
  \/ \E p \in Procs, email \in emails, inviteToken \in Tokens :
       SignupInvite(p, email, inviteToken)
  \/ \E p \in Procs : SignupMark(p)
  \/ \E p \in Procs, email \in emails : SignupPlain(p, email)
  \/ \E p \in Procs : SignupExists(p)
  \/ \E p \in Procs : SignupCreate(p)
  \/ \E a \in userTbl, email \in emails, role \in AssignableRoles : Invite(a, email, role)

\* SpecSignup: people sign up, with and without invite token, several at
\* once, while the admin invites.
NextSignup == SignupSteps(Emails)

SpecSignup == Init /\ [][NextSignup]_vars

\* SpecUsers: two people sign up, with and without invite token and through
\* Google, while admins invite, change roles and remove users.
NextUsers ==
  \/ SignupSteps({"ann@x.io", "bob@x.io"})
  \/ \E p \in Procs, email \in {"ann@x.io", "bob@x.io"} : Google(p, email)
  \/ \E p \in Procs : GoogleCount(p)
  \/ \E a \in userTbl, u \in userTbl, role \in AssignableRoles : UpdateRole(a, u.id, role)
  \/ \E a \in userTbl, u \in userTbl : RemoveUser(a, u.id)

SpecUsers == Init /\ [][NextUsers]_vars

\* SpecStatus: links without password and expiry whose owner switches them
\* inactive and active while they are scanned and time passes.
NextStatus ==
  \/ \E dynamic \in BOOLEAN : CreateQr(Owner, UrlA, dynamic, Absent, None)
  \/ \E id \in QrIds, status \in {"inactive", "active"} : PutFind(Owner, id, <<>>, status)
  \/ PutUpdate
  \/ \E r \in Reqs, slug \in Slugs : ScanRequest(r, slug, Absent, ClientIP)
  \/ Tick

SpecStatus == Init /\ [][NextStatus]_vars

\* SpecStatsRace: GET /qr/stats answered query by query while scans are
\* recorded and links deleted.
\* the handler up to its first query: getTeamMemberIds and the check of the
\* ids (lines 14-23)
StatsBegin ==
  /\ sOut.pc = "idle"
  /\ LET team == GetTeamMemberIds(StatsUsers, sIn.userId)
     IN  sOut' = IF team.threw # "none" \/ \E id \in team.ids : ~ValidUserId(id)
                 THEN [IdleStats EXCEPT !.pc = "returned", !.response = StatsFailed]
                 ELSE [IdleStats EXCEPT !.pc = StatsQueries[1]]
  /\ UNCHANGED <<sIn, pipeVars, geoVars, teamVars, acctVars>>

\* one await of the handler: the query is answered on the tables as they
\* are now; the response is built after the last one
StatsRead ==
  \E i \in 1..Len(StatsQueries) :
    /\ sOut.pc = StatsQueries[i]
    /\ LET ids == GetTeamMemberIds(StatsUsers, sIn.userId).ids
           got == (StatsQueries[i] :> StatsQuery(StatsQueries[i], sIn.tables, ids, sIn.date))
                    @@ sOut.counts
       IN  sOut' = IF i < Len(StatsQueries)
                   THEN [sOut EXCEPT !.pc = StatsQueries[i + 1], !.counts = got]
                   ELSE [sOut EXCEPT !.pc = "returned", !.counts = got,
                                     !.response = StatsResponse(got)]
    /\ UNCHANGED <<sIn, pipeVars, geoVars, teamVars, acctVars>>

\* a recorder stores the scan of a visitor at the date of the request
ScanRecorded(qrId, v) ==
  /\ Cardinality(sIn.tables.scans) < MaxScans
  /\ \E l \in sIn.tables.links : l.id = qrId
  /\ LET ids == {x.id : x \in sIn.tables.scans}
         id == IF ids = {} THEN 1 ELSE 1 + CHOOSE m \in ids : \A k \in ids : k <= m
         row == [id |-> id, qrId |-> qrId, createdAt |-> Mar15, ip |-> v.ip, ua |-> v.ua,
                 country |-> v.country, city |-> v.city]
     IN  sIn' = [sIn EXCEPT !.tables.scans = @ \cup {row}]
  /\ UNCHANGED <<sOut, pipeVars, geoVars, teamVars, acctVars>>

\* DELETE /qr/:id of link qrId: prisma.scan.deleteMany (part_002 line 515)
ScansDeleted(qrId) ==
  /\ \E x \in sIn.tables.scans : x.qrId = qrId
  /\ sIn' = [sIn EXCEPT !.tables.scans = { x \in @ : x.qrId # qrId }]
  /\ UNCHANGED <<sOut, pipeVars, geoVars, teamVars, acctVars>>

\* DELETE /qr/:id of link qrId: prisma.qrCode.delete (part_002 line 520)
LinkDeleted(qrId) ==
  /\ \E l \in sIn.tables.links : l.id = qrId
  /\ ~\E x \in sIn.tables.scans : x.qrId = qrId
  /\ sIn' = [sIn EXCEPT !.tables.links = { l \in @ : l.id # qrId }]
  /\ UNCHANGED <<sOut, pipeVars, geoVars, teamVars, acctVars>>

\* the admin's link
RaceLinks == { l \in LinkRows : l.ownerId = AdminId }

InitStatsRace ==
  /\ PipeInit
  /\ GeoIdle
  /\ TeamIdle
  /\ AcctIdle
  /\ sIn = [userId |-> AdminId, tables |-> [links |-> RaceLinks, scans |-> {}],
            date |-> [month |-> 3, day |-> 15, minute |-> 600]]
  /\ sOut = IdleStats

NextStatsRace ==
  \/ StatsBegin
  \/ StatsRead
  \/ \E l \in RaceLinks, v \in Visitors : ScanRecorded(l.id, v)
  \/ \E l \in RaceLinks : ScansDeleted(l.id)
  \/ \E l \in RaceLinks : LinkDeleted(l.id)

SpecStatsRace == InitStatsRace /\ [][NextStatsRace]_vars

(* Properties of the redirect gate (Spec)                                  *)
(***************************************************************************)
Rejections == {"404", "410", "401", "403"}

\* request r is answered, or goes on to compare, in this step
Arrives(r) == req[r].pc = "idle" /\ req'[r].pc # "idle"

\* C1: a scan request for a link whose expiry is strictly before the
\* current time is answered 410, whatever password it carries and whether
\* or not the link has a password hash.
C1_ExpiredIsGone ==
  [][\A r \in Reqs :
       LET q == req'[r].qr
       IN  (Arrives(r) /\ q # NoQr /\ q.expiresAt # None /\ q.expiresAt[1] < now)
             => (req'[r].pc = "done" /\ req'[r].resp = "410")]_vars

\* an expired link with a password, scanned with its correct password
C1_Witness ==
  \E r \in Reqs :
    /\ req[r].resp = "410"
    /\ req[r].qr.passwordHash = HashPassword(req[r].password)

\* C2 as stated: on a password-protected link that is not expired, no
\* password is answered 401, the correct password is redirected and every
\* other supplied string, the empty one included, is answered 403.
C2_AnyIncorrectForbidden ==
  \A r \in Reqs :
    (req[r].pc = "done" /\ req[r].resp \notin {"404", "410"}
       /\ req[r].qr.passwordHash # NoHash)
      => LET pw == req[r].password
             correct == req[r].qr.passwordHash = HashPassword(pw)
         IN  /\ pw = Absent => req[r].resp = "401"
             /\ (pw # Absent /\ correct) => req[r].resp = "302"
             /\ (pw # Absent /\ ~correct) => req[r].resp = "403"

\* C2 amended: on a password-protected link that is not expired, no password
\* and the empty password are answered 401, the correct password is
\* redirected, and every other non-empty string is answered 403.
C2_NonEmptyIncorrectForbidden ==
  [][\A r \in Reqs :
       LET q == req'[r].qr
           pw == req'[r].password
       IN  /\ (Arrives(r) /\ q # NoQr /\ q.passwordHash # NoHash
                 /\ ~(q.expiresAt # None /\ q.expiresAt[1] < now))
                => IF pw \in {Absent, ""}
                   THEN req'[r].pc = "done" /\ req'[r].resp = "401"
                   ELSE req'[r].pc = "comparing"
           /\ (req[r].pc = "comparing" /\ req'[r].pc # "comparing")
                => /\ req'[r].pc = "done"
                   /\ req'[r].resp = IF q.passwordHash = HashPassword(pw)
                                     THEN "302" ELSE "403"]_vars

\* the empty password on a password-protected link
C2_Witness ==
  \E r \in Reqs :
    /\ req[r].resp = "401"
    /\ req[r].password = ""
    /\ req[r].qr.passwordHash # NoHash

\* C3 as stated: a permitted scan of a dynamic link is redirected to the
\* tracking URL of its slug, and of a non-dynamic link to the stored URL.
C3_RedirectByDynamicFlag ==
  \A r \in Reqs :
    req[r].resp = "302"
      => req[r].target = IF req[r].qr.dynamic
                         THEN <<ServerHost, "scan", req[r].qr.slug>>
                         ELSE req[r].qr.originalUrl

\* C3 amended: a permitted scan is redirected to the stored target URL of
\* the link, dynamic or not; the dynamic flag chooses the tracking URL only
\* as the text GET /qr/:id/image encodes.
C3_RedirectToStoredUrl ==
  /\ \A r \in Reqs : req[r].resp = "302" => req[r].target = req[r].qr.originalUrl
  /\ (op.kind = "image" /\ op.resp = "200")
       => \E q \in qrCode :
            /\ q.id = op.id
            /\ op.target = IF q.dynamic THEN <<ServerHost, "scan", q.slug>>
                           ELSE q.originalUrl

\* a dynamic link, its URL updated by the owner, scanned and redirected
C3_Witness ==
  \E r \in Reqs :
    /\ req[r].resp = "302"
    /\ req[r].qr.dynamic
    /\ req[r].qr.originalUrl = UrlB

\* C6: a rejected scan request has no side effect: its recorder is never
\* started and calls no provider, and the step that rejects it leaves the
\* Scan rows, the QrCode rows and every recorder as they were.
C6_RejectionHasNoEffect ==
  /\ [](\A r \in Reqs : req[r].resp \in Rejections => rec[r] = IdleRec)
  /\ [][\A r \in Reqs :
          (req[r].resp = "none" /\ req'[r].resp \in Rejections)
            => UNCHANGED <<scan, qrCode, rec, nextQr>>]_vars

\* a wrong password rejected after the comparison
C6_Witness ==
  \E r \in Reqs : req[r].resp = "403" /\ rec[r] = IdleRec

(***************************************************************************)
(* Properties of the scan recorder (SpecRec, FairSpecRec)                  *)
(***************************************************************************)
ScansOf(r) == {s \in scan : s.req = r}

\* C4: the redirect does not wait for the recorder: whenever the recorder of
\* a request is pending or lost, the redirect has been sent, and a Scan row
\* of a request exists only after its redirect.
C4_RedirectBeforeRecorder ==
  /\ \A r \in Reqs : rec[r].pc # "idle" => (req[r].pc = "done" /\ req[r].resp = "302")
  /\ \A s \in scan : req[s.req].resp = "302"

\* the redirect sent and the recorder torn down before it stored anything
C4_Witness ==
  \E r \in Reqs : req[r].resp = "302" /\ rec[r].pc = "lost" /\ ScansOf(r) = {}

\* C5: no failure of the recorder reaches the client: the recorder never
\* ends in an unhandled error, and in every state in which its geolocation
\* or an insert has failed the response of the request is the redirect.
C5_RecorderFailuresAbsorbed ==
  \A r \in Reqs :
    /\ rec[r].pc \in {"idle", "geo", "insert", "retry", "done", "lost"}
    /\ (\/ rec[r].loc = UnknownLocation
        \/ rec[r].pc \in {"retry", "lost"}
        \/ rec[r].pc = "done" /\ rec[r].stored # "enriched")
         => (req[r].pc = "done" /\ req[r].resp = "302")

\* both inserts failed because the link was deleted meanwhile
C5_Witness ==
  \E r \in Reqs :
    /\ req[r].resp = "302"
    /\ rec[r].pc = "done" /\ rec[r].stored = "none"
    /\ qrCode = {}

\* C7: a permitted scan whose recorder has not ended leads, unless the
\* process is torn down or both inserts fail, to exactly one Scan row of that
\* request, referencing the link, being stored.
C7_ScanEventuallyStored ==
  \A r \in Reqs :
    (req[r].resp = "302" /\ rec[r].pc \notin {"done", "lost"})
      ~> \/ rec[r].pc = "lost"
         \/ rec[r].pc = "done" /\ rec[r].stored = "none"
         \/ /\ Cardinality(ScansOf(r)) = 1
            /\ \A s \in ScansOf(r) : s.qrId = req[r].qr.id

\* the enriched insert failed and the minimal one stored the row
C7_Witness ==
  \E r \in Reqs :
    /\ rec[r].stored = "minimal"
    /\ \E s \in ScansOf(r) : s.attempt = "minimal" /\ s.qrId = req[r].qr.id

\* C8: at most once: a link has at most as many Scan rows as permitted scan
\* requests, and a request has at most one Scan row.
C8_AtMostOnce ==
  /\ \A id \in QrIds :
       Cardinality({s \in scan : s.qrId = id})
         <= Cardinality({r \in Reqs : req[r].resp = "302" /\ req[r].qr.id = id})
  /\ \A r \in Reqs : Cardinality(ScansOf(r)) <= 1

\* two permitted requests of one link, each with its Scan row
C8_Witness ==
  \E id \in QrIds : Cardinality({s \in scan : s.qrId = id}) = 2

(***************************************************************************)
(* Properties of the geolocation resolver (SpecGeo)                        *)
(***************************************************************************)
AllProvidersFail(env) ==
  /\ \A i \in 1..NumServices : env.disc[i] # "ok"
  /\ env.primary # "ok"
  /\ env.secondary # "ok"

\* C9: when every discovery service and both providers fail,
\* getLocationFromIP returns the Unknown record and does not throw.
C9_AllFailIsUnknown ==
  (gOut.pc = "returned" /\ AllProvidersFail(gIn.env))
    => (~gOut.threw /\ gOut.loc = UnknownLocation)

\* a public address, both providers asked, both failed
C9_Witness ==
  /\ gOut.pc = "returned"
  /\ AllProvidersFail(gIn.env)
  /\ gIn.ip = <<8, 8, 8, 8>>
  /\ Len(gOut.calls) = 2
  /\ gOut.loc = UnknownLocation

\* C10: for an empty, loopback or private address, when a discovery service
\* succeeds and one of the two providers succeeds for the discovered
\* address, the result is not the Unknown record.
C10_OneProviderSuffices ==
  (/\ gOut.pc = "returned"
   /\ IsLocalOrPrivate(gIn.ip)
   /\ \E i \in 1..NumServices : gIn.env.disc[i] = "ok"
   /\ gIn.env.primary = "ok" \/ gIn.env.secondary = "ok"
   /\ gIn.env.payload = FullPayload)
    => gOut.loc # UnknownLocation

\* the i-th external call of the finished run asked the primary provider
\* and the answer was one of the failures named by C11
PrimaryFailures == {"rateLimited", "errorPayload", "timeout", "transport"}
PrimaryFailedAt(i) ==
  /\ gOut.calls[i][1] = "primary"
  /\ PrimaryResponse(gIn.env, gOut.calls[i][2]) \in PrimaryFailures

\* C11: after a rate limit, an error payload, a timeout or a transport error
\* of the primary provider, getLocationFromIP asks the secondary provider
\* before it returns.
C11_PrimaryFailureAsksSecondary ==
  gOut.pc = "returned"
    => \A i \in 1..Len(gOut.calls) :
         PrimaryFailedAt(i)
           => \E j \in (i + 1)..Len(gOut.calls) : gOut.calls[j][1] = "secondary"

\* a provider produced an answer: the last external call of the run asked a
\* provider and was answered with location data
ProviderAnswered ==
  /\ gOut.pc = "returned"
  /\ gOut.calls # <<>>
  /\ LET c == gOut.calls[Len(gOut.calls)]
     IN  \/ c[1] = "primary" /\ PrimaryResponse(gIn.env, c[2]) = "ok"
         \/ c[1] = "secondary" /\ SecondaryResponse(gIn.env, c[2]) = "ok"

\* C12 as stated: a field the answering provider omitted is absent in the
\* result, and "Unknown" is in a field only when no provider answered.
C12_OmittedIsAbsent ==
  gOut.pc = "returned"
    => LET data == gIn.env.payload
           loc == gOut.loc
       IN  /\ ProviderAnswered
                => /\ data.country = Absent => loc.country = Absent
                   /\ data.city = Absent => loc.city = Absent
                   /\ data.region = Absent => loc.region = Absent
                   /\ data.latitude = None => loc.latitude = None
                   /\ data.longitude = None => loc.longitude = None
           /\ "Unknown" \in {loc.country, loc.city, loc.region} => ~ProviderAnswered

\* C12 amended: when a provider answered, a coordinate it omitted (or gave
\* as 0) is absent and every other coordinate is the provider's; a country,
\* city or region it omitted (or gave empty) is the string "Unknown" and
\* every other one is the provider's.
C12_OmittedTextIsUnknown ==
  ProviderAnswered
    => LET data == gIn.env.payload
           loc == gOut.loc
       IN  /\ loc.country = (IF data.country \in {Absent, ""} THEN "Unknown" ELSE data.country)
           /\ loc.city = (IF data.city \in {Absent, ""} THEN "Unknown" ELSE data.city)
           /\ loc.region = (IF data.region \in {Absent, ""} THEN "Unknown" ELSE data.region)
           /\ loc.latitude = (IF data.latitude \in {None, Some(0)} THEN None ELSE data.latitude)
           /\ loc.longitude = (IF data.longitude \in {None, Some(0)} THEN None ELSE data.longitude)

\* the secondary provider answered without a city and without a longitude
C12_Witness ==
  /\ ProviderAnswered
  /\ gOut.calls[Len(gOut.calls)][1] = "secondary"
  /\ gIn.env.payload.city = Absent
  /\ gOut.loc.city = "Unknown"
  /\ gOut.loc.country = "France"
  /\ gOut.loc.longitude = None

(***************************************************************************)
(* Properties of the team resolver (SpecTeam)                              *)
(***************************************************************************)
\* the users invited by x
Invitees(store, x) == { u \in store : u.invitedBy = x.id }

\* C13: for an original admin X whose invitees are exactly two users A and
\* B, editors or viewers, getTeamMemberIds of X, of A and of B is {X, A, B}.
C13_TeamIsSameForAll ==
  tOut.pc = "returned"
    => \A x \in tIn.store :
         LET invitees == Invitees(tIn.store, x)
             team == {x.id} \cup {u.id : u \in invitees}
         IN  (/\ IsOriginalAdmin(x)
              /\ Cardinality(invitees) = 2
              /\ \A u \in invitees : u.role \in {"editor", "viewer"}
              /\ tIn.userId \in team)
               => (tOut.ids.threw = "none" /\ tOut.ids.ids = team)

\* a viewer asks, whose team is the admin, an editor and itself
C13_Witness ==
  /\ tOut.pc = "returned"
  /\ Cardinality(tOut.ids.ids) = 3
  /\ \E x \in tIn.store :
       /\ IsOriginalAdmin(x)
       /\ Cardinality(Invitees(tIn.store, x)) = 2
       /\ \E u, v \in Invitees(tIn.store, x) :
            u.role = "viewer" /\ v.role = "editor" /\ u.id = tIn.userId

\* the user k invitations above u, NoUser where the chain ends before
RECURSIVE InviterAbove(_, _, _)
InviterAbove(store, u, k) ==
  IF k = 0 \/ u = NoUser THEN u
  ELSE IF u.invitedBy = NoId THEN NoUser
  ELSE InviterAbove(store, FindUnique(store, u.invitedBy), k - 1)

\* no original admin is among the DepthCeiling users above u
NoRootAbove(store, u) ==
  \A k \in 1..DepthCeiling :
    LET a == InviterAbove(store, u, k)
    IN  a = NoUser \/ ~IsOriginalAdmin(a)

\* C14: when the user exists, is not the original admin, and the walk up
\* its invitations finds no original admin (the chain ends, an inviter does
\* not exist, the chain is longer than the ceiling or runs in a cycle),
\* getTeamMemberIds returns the user alone after at most one lookup per
\* step of the walk and one for the user; no call executes more than
\* DepthCeiling + 2 lookups.
C14_NoRootIsSelfOnly ==
  tOut.pc = "returned"
    => /\ tOut.ids.lookups <= DepthCeiling + 2
       /\ LET user == FindUnique(tIn.store, tIn.userId)
          IN  (/\ ValidUserId(tIn.userId)
               /\ user # NoUser
               /\ ~IsOriginalAdmin(user)
               /\ NoRootAbove(tIn.store, user))
                => /\ tOut.ids.threw = "none"
                   /\ tOut.ids.ids = {tIn.userId}
                   /\ tOut.ids.lookups <= DepthCeiling + 1

\* the walk ran into the ceiling: the user and DepthCeiling inviters were
\* looked up
C14_Witness ==
  /\ tOut.pc = "returned"
  /\ tOut.ids.threw = "none"
  /\ tOut.ids.ids = {tIn.userId}
  /\ tOut.ids.lookups = DepthCeiling + 1

\* C15: for an existing user with a well-formed id, the list of
\* getTeamMemberIds contains the user.
C15_TeamContainsSelf ==
  (/\ tOut.pc = "returned"
   /\ ValidUserId(tIn.userId)
   /\ FindUnique(tIn.store, tIn.userId) # NoUser)
    => (tOut.ids.threw = "none" /\ tIn.userId \in tOut.ids.ids)

\* C16: getTeamMembers called with an id that fails the format check throws
\* the error of validateUserId and executes no storage query.
C16_MalformedFailsFast ==
  (tOut.pc = "returned" /\ ~ValidUserId(tIn.userId))
    => /\ tOut.members.threw = "Invalid user ID format"
       /\ tOut.members.lookups = 0

\* an id of nine characters with a hyphen, on a table that has users
C16_Witness ==
  /\ tOut.pc = "returned"
  /\ Len(tIn.userId) = 9
  /\ tIn.store # {}
  /\ tOut.members.threw = "Invalid user ID format"

\* C17: for a malformed id each of the three functions throws the format
\* error, for a well-formed id of no user each throws the not-found error;
\* none returns a value.
C17_NoSilentDegradation ==
  tOut.pc = "returned"
    => /\ ~ValidUserId(tIn.userId)
            => /\ tOut.members.threw = "Invalid user ID format"
               /\ tOut.ids.threw = "Invalid user ID format"
               /\ tOut.are.threw = "Invalid user ID format"
       /\ (ValidUserId(tIn.userId) /\ FindUnique(tIn.store, tIn.userId) = NoUser)
            => /\ tOut.members.threw = "User not found"
               /\ tOut.ids.threw = "User not found"
               /\ tOut.are.threw = "User not found"

(***************************************************************************)
(* Properties of the statistics (SpecStats)                                *)
(***************************************************************************)
\* C18: the response of GET /qr/stats is the same on tables that differ
\* only in links of owners outside the requester's team and in scans of
\* such links.
C18_StatsAreTeamScoped ==
  sOut.pc = "returned" => sOut.response = sOut.twin

\* the editor asks; the tables hold a link of the admin and a link of the
\* user outside the team, each with a scan
C18_Witness ==
  /\ sOut.pc = "returned"
  /\ sOut.response.status = 200
  /\ sIn.userId = EditorId
  /\ \E x, y \in sIn.tables.scans : x.qrId = 1 /\ y.qrId = 3
  /\ sOut.response.overview.totalScans.value = 1

\* the three deltas of a response: the label, the counts of the current and
\* of the prior window, and the label for no data
Deltas ==
  LET o == sOut.response.overview
      n == sOut.counts
  IN  { [label |-> o.totalQrCodes.change, thisMonth |-> n.qrCodesThisMonth,
         lastMonth |-> n.qrCodesLastMonth, noData |-> "No QR codes yet"],
        [label |-> o.totalScans.change, thisMonth |-> n.scansThisMonth,
         lastMonth |-> n.scansLastMonth, noData |-> "No scans yet"],
        [label |-> o.uniqueVisitors.change, thisMonth |-> n.uniqueVisitors,
         lastMonth |-> n.uniqueVisitorsLastMonth, noData |-> "No visitors yet"] }

Answered == sOut.pc = "returned" /\ sOut.response.status = 200

\* the label shows a percentage
IsPercentage(label) ==
  \/ "tenths" \in DOMAIN label
  \/ "text" \in DOMAIN label /\ label.text = "+100% this month"

\* C19: a delta whose count is zero in the current and in the prior window
\* has the no-data label and no percentage.
C19_NoDataLabel ==
  Answered
    => \A d \in Deltas :
         (d.thisMonth = 0 /\ d.lastMonth = 0)
           => (d.label = [text |-> d.noData] /\ ~IsPercentage(d.label))

\* the admin has a link of the month, nobody scanned it
C19_Witness ==
  /\ Answered
  /\ sOut.counts.qrCodesThisMonth = 1
  /\ sOut.counts.scansThisMonth = 0 /\ sOut.counts.scansLastMonth = 0
  /\ sOut.response.overview.totalScans.change = [text |-> "No scans yet"]
  /\ sOut.response.overview.uniqueVisitors.change = [text |-> "No visitors yet"]

\* C20: a delta is a percentage only when the count of the prior window is
\* not zero; when it is zero and the count of the current window is
\* positive, the label is the count with " this month" and no percentage.
C20_PercentageNeedsPriorCount ==
  Answered
    => \A d \in Deltas :
         /\ IsPercentage(d.label) => d.lastMonth # 0
         /\ (d.lastMonth = 0 /\ d.thisMonth > 0)
              => /\ "count" \in DOMAIN d.label
                 /\ d.label.count = d.thisMonth
                 /\ d.label.suffix = " this month"

(***************************************************************************)
(* Properties of the device breakdown (SpecDevice)                         *)
(***************************************************************************)
\* the user agent holds the token
HasToken(ua, token) == \E i \in 1..Len(ua) : ua[i] = token

\* the scans of the month that the breakdown of the response counts as device
BucketOf(device) ==
  LET entries == sOut.response.deviceAnalytics
      i == CHOOSE k \in 1..Len(entries) : entries[k].device = device
  IN  entries[i].scans

\* C21: every scan whose user agent holds "iPhone" is counted as mobile,
\* every scan whose user agent holds "iPad" as tablet, whatever else it
\* holds, every scan with an empty user agent as desktop, and every scan is
\* in exactly one of the three buckets.
C21_DeviceBuckets ==
  Answered
    => LET rows == sIn.tables.scans
           n(S) == Cardinality(S)
       IN  /\ BucketOf("Mobile") >= n({ s \in rows : HasToken(s.ua, "iPhone") })
           /\ BucketOf("Tablet") >= n({ s \in rows : HasToken(s.ua, "iPad") })
           /\ BucketOf("Desktop") >= n({ s \in rows : s.ua = UaNone })
           /\ BucketOf("Mobile") + BucketOf("Tablet") + BucketOf("Desktop") = n(rows)

(***************************************************************************)
(* Properties of link ownership (SpecOwn)                                  *)
(***************************************************************************)
\* the step is a PUT or DELETE of link id by user u reaching its findFirst
FindStep(u, id) ==
  \/ \E url \in {<<>>, UrlB}, status \in {Absent, "inactive", "active"} :
       PutFind(u, id, url, status)
  \/ DelFind(u, id)

\* C22: a link row is changed or removed, and scans are removed, only in a
\* step of a PUT or DELETE of the link's owner; a PUT or DELETE by any other
\* user is answered 404 and changes neither table; the ownerId of a row is
\* the user who created it and never changes.
C22_OnlyOwnerMutates ==
  [][ /\ \A q \in qrCode :
           q \notin qrCode'
             => /\ op.pc # "done" /\ op.id = q.id /\ op.user = q.ownerId
                /\ \A x \in qrCode' : x.id = q.id => x.ownerId = q.ownerId
      /\ \A s \in scan :
           s \notin scan'
             => /\ op.kind = "delete" /\ op.pc # "done" /\ op.id = s.qrId
                /\ \E q \in qrCode : q.id = s.qrId /\ q.ownerId = op.user
      /\ \A x \in qrCode' :
           (~\E q \in qrCode : q.id = x.id)
             => \E u \in Users : CreateQr(u, UrlA, TRUE, Absent, None) /\ x.ownerId = u
      /\ \A u \in Users, id \in QrIds :
           (FindStep(u, id) /\ \E q \in qrCode : q.id = id /\ q.ownerId # u)
             => /\ op'.pc = "done" /\ op'.resp = "404"
                /\ qrCode' = qrCode /\ scan' = scan ]_vars

\* the editor is answered 404 for the admin's link, which GET /qr/my-codes
\* lists for the editor, and the link keeps its scan
C22_Witness ==
  /\ op.kind \in {"put", "delete"} /\ op.pc = "done" /\ op.resp = "404"
  /\ \E q \in qrCode :
       /\ q.ownerId = "u1"
       /\ [id |-> q.id, isOwner |-> FALSE] \in MyCodes("u2").codes
       /\ \E s \in scan : s.qrId = q.id

(***************************************************************************)
(* Properties of DELETE /qr/:id racing with recorders (SpecRec)            *)
(***************************************************************************)
\* C23: every stored scan references a stored link, and a DELETE request
\* that has bulk-deleted the scans of a link does not end, the process still
\* running, with the link still stored.
C23_ScansGoWithLink ==
  /\ [](\A s \in scan : \E q \in qrCode : q.id = s.qrId)
  /\ [][ (op.kind = "delete" /\ op.pc = "delQr" /\ op'.pc = "done"
            /\ op'.resp # "aborted")
           => ~\E q \in qrCode' : q.id = op.id ]_vars

(***************************************************************************)
(* Properties of invitations and accounts (SpecSignup, SpecUsers)          *)
(***************************************************************************)
\* a signup carrying the token has not been answered yet
SignupInFlight(token) ==
  \E p \in Procs : signup[p].token = token /\ signup[p].pc \in {"mark", "exists", "create"}

\* C24: at most one signup carrying an invite token creates a user, and an
\* invitation with used = true, no signup carrying its token being in
\* flight, has its user: a row with the invitation's address, the
\* invitation's role and the issuer as invitedBy.
C24_InvitationMakesItsUser ==
  /\ \A p1, p2 \in Procs :
       (/\ signup[p1].resp = "201" /\ signup[p2].resp = "201"
        /\ signup[p1].token # NoToken /\ signup[p1].token = signup[p2].token)
         => p1 = p2
  /\ \A i \in invitation :
       (i.used /\ ~SignupInFlight(i.token))
         => \E u \in userTbl :
              /\ EmailLower(u.email) = EmailLower(i.email)
              /\ u.role = i.role
              /\ u.invitedBy = i.invitedBy

\* some user above u, following invitedBy at most k times, is an original
\* admin
RootAbove(u) ==
  \E k \in 1..MaxIds : LET a == InviterAbove(userTbl, u, k)
                       IN  a # NoUser /\ IsOriginalAdmin(a)

\* C25: every user whose invitedBy is null has role admin, and every user
\* with an inviter reaches such a user through invitedBy.
C25_OneRootPerTree ==
  \A u \in userTbl :
    /\ u.invitedBy = NoId => u.role = "admin"
    /\ u.invitedBy # NoId => RootAbove(u)

(***************************************************************************)
(* Properties of the recorder's retry (SpecRec)                            *)
(***************************************************************************)
\* the rows the step stores for request r
StoredFor(r) == { x \in scan' \ scan : x.req = r }

\* C26: a failed enriched insert is followed by one insert of a row with the
\* link id, the address and the user agent and no location field; after
\* that insert, failed or not, and after a successful enriched insert the
\* recorder stores nothing more: at most two insert attempts per run.
C26_OneMinimalRetry ==
  [][ \A r \in Reqs :
        /\ (rec[r].pc = "insert" /\ rec'[r].pc \notin {"insert", "lost"})
             => IF StoredFor(r) = {} THEN rec'[r].pc = "retry" ELSE rec'[r].pc = "done"
        /\ (rec[r].pc = "retry" /\ rec'[r].pc \notin {"retry", "lost"})
             => /\ rec'[r].pc = "done"
                /\ \A x \in StoredFor(r) :
                     /\ x.qrId = req[r].qr.id /\ x.ip = req[r].ip /\ x.ua = UserAgent
                     /\ x.country = Absent /\ x.city = Absent /\ x.region = Absent
                     /\ x.latitude = None /\ x.longitude = None
        /\ rec[r].pc \in {"done", "lost"}
             => rec'[r].pc = rec[r].pc /\ StoredFor(r) = {} ]_vars

\* both inserts of a run failed while the link was stored: the run is over
\* and has stored nothing
C26_Witness ==
  \E r \in Reqs :
    /\ rec[r].pc = "done" /\ rec[r].stored = "none"
    /\ \E q \in qrCode : q.id = req[r].qr.id
    /\ ~\E x \in scan : x.req = r

(***************************************************************************)
(* Properties of public-IP discovery (SpecGeo)                             *)
(***************************************************************************)
\* the positions of the finished run's calls of one kind
CallsOf(kind) == { i \in 1..Len(gOut.calls) : gOut.calls[i][1] = kind }

\* C27: for an empty, loopback or private input the discovery services are
\* asked first, one by one in their order, up to the first that answers;
\* every provider call that follows, primary or secondary, looks up the
\* discovered address; the run makes at most NumServices discovery calls,
\* one primary and one secondary call.
C27_DiscoveredAddressIsTarget ==
  (gOut.pc = "returned" /\ IsLocalOrPrivate(gIn.ip))
    => LET k == Cardinality(CallsOf("discovery"))
       IN  /\ k >= 1 /\ k <= NumServices
           /\ \A i \in 1..k : gOut.calls[i] = <<"discovery", i>>
           /\ \A i \in 1..(k - 1) : gIn.env.disc[i] # "ok"
           /\ (k < NumServices => gIn.env.disc[k] = "ok")
           /\ Cardinality(CallsOf("primary")) <= 1
           /\ Cardinality(CallsOf("secondary")) <= 1
           /\ \A i \in CallsOf("primary") \cup CallsOf("secondary") :
                /\ gIn.env.disc[k] = "ok"
                /\ gOut.calls[i][2] = EgressIP

(***************************************************************************)
(* Properties of the link status (SpecStatus)                              *)
(***************************************************************************)
\* the step completes a PUT of the status
StatusSet(status) ==
  /\ op.kind = "put" /\ op.pc = "update" /\ op.status = status
  /\ op'.pc = "done" /\ op'.resp = "200"

\* C28: a PUT with status inactive stores the time it read as expiry, a PUT
\* with status active stores no expiry, and nothing else changes the
\* expiry; a scan request that arrives strictly after the stored expiry is
\* answered 410, and a scan request for a link without expiry is never
\* answered 410.
C28_StatusRulesTheGate ==
  [][ /\ \A q \in qrCode' :
           /\ (StatusSet("inactive") /\ q.id = op.id)
                => (q.expiresAt = Some(op.at) /\ op.at <= now)
           /\ (StatusSet("active") /\ q.id = op.id) => q.expiresAt = None
           /\ \A old \in qrCode :
                (old.id = q.id /\ old.expiresAt # q.expiresAt)
                  => (StatusSet("inactive") \/ StatusSet("active")) /\ op.id = q.id
      /\ \A r \in Reqs :
           (req[r].pc = "idle" /\ req'[r].pc # "idle" /\ req'[r].qr # NoQr)
             => LET q == req'[r].qr
                IN  /\ (q.expiresAt # None /\ now > q.expiresAt[1])
                         => (req'[r].pc = "done" /\ req'[r].resp = "410")
                    /\ q.expiresAt = None => req'[r].resp # "410" ]_vars

\* a link created without expiry answered 410 to the first scan and, set
\* active again, 302 to the second
C28_Witness ==
  /\ req[1].resp = "410" /\ req[2].resp = "302"
  /\ req[1].qr.id = req[2].qr.id
  /\ req[1].qr.expiresAt # None /\ req[2].qr.expiresAt = None

(***************************************************************************)
(* Properties of the statistics under concurrent writes (SpecStatsRace)    *)
(***************************************************************************)
\* C29: in an answered response the total scan count is at least the scan
\* count of the month its delta was made of, and the unique-visitor count
\* is at most that scan count.
C29_FiguresConsistent ==
  Answered
    => /\ sOut.response.overview.totalScans.value >= sOut.counts.scansThisMonth
       /\ sOut.response.overview.uniqueVisitors.value <= sOut.counts.scansThisMonth

(***************************************************************************)
(* Symmetry of team membership (SpecPair)                                  *)
(***************************************************************************)
\* C30: for two users of the table with well-formed ids, areTeamMembers
\* answers the same in both directions, and the second user is in the team
\* of the first exactly when the two have the same team.
C30_MembershipSymmetric ==
  (/\ tOut.pc = "returned"
   /\ \E u \in tIn.store : u.id = tIn.userId
   /\ \E v \in tIn.store : v.id = tIn.userId2
   /\ ValidUserId(tIn.userId) /\ ValidUserId(tIn.userId2))
    => /\ tOut.are.value = tOut.back.value
       /\ (tIn.userId2 \in tOut.ids.ids) <=> (tOut.ids.ids = tOut.ids2.ids)

====
